---- MODULE Spec2Model ----
(***************************************************************************)
(* Model of the constraint dispatch and message-resolution engine of       *)
(* ember-perspective: messageForError (error.ts), the validators           *)
(* (validators.ts), validateConstraint / validateField / validate          *)
(* (core.ts).                                                              *)
(*                                                                         *)
(* One behaviour is one call of validate or validateField.  Its inputs     *)
(* (model, constraints, haltBy) are drawn in Init; the actions are the     *)
(* stretches of code between two suspension points (await) of the async    *)
(* functions.  Every invocation of a caller-supplied function (an `if`     *)
(* predicate, a custom validator, the i18n handler's exists / t) is        *)
(* appended to `log`.                                                      *)
(***************************************************************************)
EXTENDS Integers, Sequences, FiniteSets, TLC

(***************************************************************************)
(* JavaScript values.  Every value is a record with a kind `k`; an object  *)
(* is the sequence of its own <<key, value>> properties in insertion       *)
(* order, a property key is a string or a symbol value.                    *)
(***************************************************************************)
Undefined == [k |-> "undefined"]
Null == [k |-> "null"]
Bool(b) == [k |-> "boolean", v |-> b]
Num(n) == [k |-> "number", v |-> n]
Str(s) == [k |-> "string", v |-> s]
Sym(s) == [k |-> "symbol", v |-> s]
Fn(id) == [k |-> "function", v |-> id]
Arr(items) == [k |-> "array", v |-> items]
Obj(props) == [k |-> "object", v |-> props]
RegExpOf(src) == [k |-> "regexp", v |-> src]
HandlerOf(id) == [k |-> "handler", v |-> id]
ErrorOf(class) == [k |-> "error", v |-> class]

\* NaN: a number, falsy, equal to nothing under ===, itself included.
NaN == [k |-> "number", v |-> 0, nan |-> TRUE]

P(name, value) == <<Str(name), value>>

\* typeof x
TypeOf(x) ==
  CASE x.k = "undefined" -> "undefined"
    [] x.k = "boolean" -> "boolean"
    [] x.k = "number" -> "number"
    [] x.k = "string" -> "string"
    [] x.k = "symbol" -> "symbol"
    [] x.k = "function" -> "function"
    [] OTHER -> "object"

\* x == null (null or undefined), the test of `??` and `?.`
IsNullish(x) == x.k \in {"undefined", "null"}

\* The properties every plain object inherits from Object.prototype.
ObjectPrototype ==
  << P("constructor", Fn("Object")), P("toString", Fn("toString")),
     P("valueOf", Fn("valueOf")), P("hasOwnProperty", Fn("hasOwnProperty")) >>

HasOwn(props, key) == \E i \in DOMAIN props : props[i][1] = key

GetOwn(props, key) ==
  IF HasOwn(props, key)
  THEN props[CHOOSE i \in DOMAIN props : props[i][1] = key][2]
  ELSE Undefined

\* key in o
In(key, o) == HasOwn(o.v, key) \/ HasOwn(ObjectPrototype, key)

\* o[key]
Get(o, key) ==
  IF HasOwn(o.v, key) THEN GetOwn(o.v, key) ELSE GetOwn(ObjectPrototype, key)

\* const { a, b, ...rest } = o : the own properties of o but the named ones
Omit(props, keys) == SelectSeq(props, LAMBDA p : p[1] \notin keys)

\* { ...a, ...b } : a's keys keep their place and take b's value on a
\* collision, b's other keys follow in b's order
Spread(a, b) ==
  [i \in DOMAIN a |-> IF HasOwn(b, a[i][1]) THEN <<a[i][1], GetOwn(b, a[i][1])>> ELSE a[i]]
  \o SelectSeq(b, LAMBDA p : ~HasOwn(a, p[1]))

\* a === b.  Two objects of the model are the same object when they hold the
\* same properties.
StrictEquals(a, b) == a = b /\ a # NaN

\* The comparison of Array.prototype.includes: === but for NaN, which it finds.
SameValueZero(a, b) == a = b

\* String(x) of a string, a number or a symbol
StringOf(x) ==
  CASE x.k = "string" -> x.v
    [] x.k = "number" -> IF x = NaN THEN "NaN" ELSE ToString(x.v)
    [] x.k = "symbol" -> "Symbol(" \o x.v \o ")"

\* The key o[x] reads: a symbol as it is, anything else as its string
ToPropertyKey(x) == IF x.k = "symbol" THEN x ELSE Str(StringOf(x))

\* Boolean(x)
Truthy(x) ==
  CASE x.k \in {"undefined", "null"} -> FALSE
    [] x.k = "boolean" -> x.v
    [] x.k = "number" -> x.v # 0
    [] x.k = "string" -> x.v # ""
    [] OTHER -> TRUE

(***************************************************************************)
(* @ember/utils                                                            *)
(***************************************************************************)
\* The strings of the model that hold no non-whitespace character (!/\S/).
WhitespaceOnly == {"", " "}

\* isNone(x): x is null or undefined
isNone(x) == x.k \in {"undefined", "null"}

\* isPresent(x) = !isBlank(x); isBlank(x) = isEmpty(x) || whitespace-only string
isPresent(x) ==
  CASE isNone(x) -> FALSE
    [] x.k = "string" -> x.v \notin WhitespaceOnly
    [] x.k = "array" -> Len(x.v) # 0
    [] OTHER -> TRUE

(***************************************************************************)
(* Completions of the synchronous code: what a function returns or throws, *)
(* and the calls it made to caller-supplied functions on the way.          *)
(***************************************************************************)
Return(value, calls) == [type |-> "return", value |-> value, calls |-> calls]
Throw(class, calls) == [type |-> "throw", value |-> ErrorOf(class), calls |-> calls]
Call(ev, key, params) == [ev |-> ev, key |-> key, params |-> params]

(***************************************************************************)
(* The i18n handler is supplied by the caller (interface I18nHandler).     *)
(* The handlers of the model answer from a registry of <<key, text>>.      *)
(***************************************************************************)
Registry(handler) ==
  IF handler.v = "mockEngine"
  THEN << <<"validation.presence", "translated presence">>,
          <<"validation.length.minimum", "translated minimum">>,
          <<"anEntry", "this is a value">>,
          <<"emptyEntry", "">> >>
  ELSE << >>

\* handler.exists(errorKey)
HandlerExists(handler, errorKey) ==
  \E i \in DOMAIN Registry(handler) : Registry(handler)[i][1] = errorKey.v

\* handler.t(errorKey, params)
HandlerT(handler, errorKey, params) ==
  LET r == Registry(handler)
  IN Str(r[CHOOSE i \in DOMAIN r : r[i][1] = errorKey.v][2])

(***************************************************************************)
(* error.ts                                                                *)
(***************************************************************************)
\* Mutant: options.i18n.key is ignored.
errorKeyOf_IgnoresKey(constraint, options) == Str("validation." \o constraint)

\* The lookup key: i18n?.key ?? `validation.${constraint}`
errorKeyOf(constraint, options) ==
  LET i18n == Get(options, Str("i18n"))
      key == IF IsNullish(i18n) THEN Undefined ELSE Get(i18n, Str("key"))
  IN IF IsNullish(key) THEN Str("validation." \o constraint) ELSE key

\* Mutant: on a collision the value the engine supplies wins over the option.
translationParams_EngineWins(model, field, value, constraint, options) ==
  Obj(Spread(Omit(options.v, {Str("message"), Str("i18n")}),
             << P("constraint", Str(constraint)), P("model", model),
                P("field", field), P("value", value) >>))

\* The params handed to handler.t
translationParams(model, field, value, constraint, options) ==
  Obj(Spread(<< P("constraint", Str(constraint)), P("model", model),
                P("field", field), P("value", value) >>,
             Omit(options.v, {Str("message"), Str("i18n")})))

\* Mutant: a translation that exists takes precedence over options.message.
messageForError_TranslationFirst(model, field, value, constraint, defaultMessage, options) ==
  LET message == Get(options, Str("message"))
      i18n == Get(options, Str("i18n"))
      errorKey == errorKeyOf(constraint, options)
      handler == IF IsNullish(i18n) THEN Undefined ELSE Get(i18n, Str("handler"))
      params == translationParams(model, field, value, constraint, options)
      existsCall == Call("exists", errorKey, Undefined)
      tCall == Call("t", errorKey, params)
  IN IF ~IsNullish(handler) /\ HandlerExists(handler, errorKey)
     THEN Return(HandlerT(handler, errorKey, params), <<existsCall, tCall>>)
     ELSE IF isPresent(message) THEN Return(message, << >>)
     ELSE Return(Str(defaultMessage), << >>)

\* Mutant: a key the handler does not know is returned in place of the default.
messageForError_KeyForMissing(model, field, value, constraint, defaultMessage, options) ==
  LET message == Get(options, Str("message"))
      i18n == Get(options, Str("i18n"))
      errorKey == errorKeyOf(constraint, options)
      handler == IF IsNullish(i18n) THEN Undefined ELSE Get(i18n, Str("handler"))
      params == translationParams(model, field, value, constraint, options)
      existsCall == Call("exists", errorKey, Undefined)
      tCall == Call("t", errorKey, params)
  IN IF isPresent(message) THEN Return(message, << >>)
     ELSE IF IsNullish(handler) THEN Return(Str(defaultMessage), << >>)
     ELSE IF HandlerExists(handler, errorKey)
          THEN Return(HandlerT(handler, errorKey, params), <<existsCall, tCall>>)
          ELSE Return(errorKey, <<existsCall>>)

messageForError(model, field, value, constraint, defaultMessage, options) ==
  LET message == Get(options, Str("message"))
      i18n == Get(options, Str("i18n"))
      errorKey == errorKeyOf(constraint, options)
      handler == IF IsNullish(i18n) THEN Undefined ELSE Get(i18n, Str("handler"))
      params == translationParams(model, field, value, constraint, options)
      existsCall == Call("exists", errorKey, Undefined)
      tCall == Call("t", errorKey, params)
  IN IF isPresent(message) THEN Return(message, << >>)
     ELSE IF IsNullish(handler) THEN Return(Str(defaultMessage), << >>)
     ELSE IF HandlerExists(handler, errorKey)
          THEN Return(HandlerT(handler, errorKey, params), <<existsCall, tCall>>)
          ELSE Return(Str(defaultMessage), <<existsCall>>)

Pass == Return(Undefined, << >>)

(***************************************************************************)
(* type-utils, utils                                                       *)
(***************************************************************************)
TYPE_VALUES ==
  {"bigint", "boolean", "function", "number", "object", "string", "symbol", "undefined"}

\* hasLength(value)
hasLength(value) ==
  \/ TypeOf(value) = "string"
  \/ value.k = "array"
  \/ /\ value.k = "object"
     /\ In(Str("length"), value)
     /\ TypeOf(Get(value, Str("length"))) = "number"

\* value.length of a value that has one
LengthOf(value) ==
  CASE value.k = "string" -> Len(value.v)
    [] value.k = "array" -> Len(value.v)
    [] OTHER -> Get(value, Str("length")).v

\* The strings of the model that the e-mail pattern and the UUID pattern match.
EmailStrings == {"a@b.co"}
UUIDStrings == {"f47ac10b-58cc-4372-a567-0e02b2c3d479"}

isEmailValid(s) == s \in EmailStrings
isUUIDValid(s) == s \in UUIDStrings

\* string.match(pattern) !== null; match(undefined) is a match of the empty
\* pattern, which every string has.  The patterns of the model: /^abc/.
StringMatch(s, pattern) ==
  CASE pattern.k = "undefined" -> TRUE
    [] pattern.k = "regexp" /\ pattern.v = "^abc" -> s \in {"abc", "abcdef"}
    [] OTHER -> FALSE

\* The constructors a value is an instance of (its prototype chain).
ClassesOf(value) ==
  CASE value.k = "array" -> {"Array", "Object"}
    [] value.k = "object" -> {"Object"}
    [] value.k = "regexp" -> {"RegExp", "Object"}
    [] value.k = "function" -> {"Function", "Object"}
    [] value.k = "error" -> {value.v, "Error", "Object"}
    [] OTHER -> {}

(***************************************************************************)
(* validators.ts                                                           *)
(***************************************************************************)
\* Mutant: presence asks for a value that is not blank.
validatePresence_Blank(model, field, value, options) ==
  IF ~isPresent(value)
  THEN messageForError(model, field, value, "presence", "Must be present", options)
  ELSE Pass

validatePresence(model, field, value, options) ==
  IF isNone(value)
  THEN messageForError(model, field, value, "presence", "Must be present", options)
  ELSE Pass

validateAbsence(model, field, value, options) ==
  IF ~isNone(value)
  THEN messageForError(model, field, value, "absence", "Must not be present", options)
  ELSE Pass

validateType(model, field, value, options) ==
  LET type == Get(options, Str("type"))
  IN IF Str(TypeOf(value)) # type
     THEN messageForError(model, field, value, "type", "Must be a " \o type.v, options)
     ELSE Pass

validateInstance(model, field, value, options) ==
  LET Constructor == Get(options, Str("Constructor"))
  IN IF Constructor.k # "function" THEN Throw("TypeError", << >>)
     ELSE IF Constructor.v \notin ClassesOf(value)
     THEN messageForError(model, field, value, "type",
                          "Must be an instance of " \o Constructor.v, options)
     ELSE Pass

\* Mutant: a value without a length fails the constraint instead of throwing.
validateLength_FailsWithoutLength(model, field, value, options) ==
  IF ~hasLength(value)
  THEN messageForError(model, field, value, "length", "Must have a length", options)
  ELSE LET minimum == Get(options, Str("minimum"))
       IN IF minimum # Undefined /\ LengthOf(value) < minimum.v
          THEN messageForError(model, field, value, "length.minimum",
                 "Length must be greater than " \o ToString(minimum.v), options)
          ELSE Pass

\* Mutant: the bounds are exclusive.
validateLength_Exclusive(model, field, value, options) ==
  LET minimum == Get(options, Str("minimum"))
      maximum == Get(options, Str("maximum"))
      length == LengthOf(value)
  IN IF ~hasLength(value) THEN Throw("InvalidValueForConstraintError", << >>)
     ELSE IF minimum # Undefined /\ maximum # Undefined
     THEN IF length <= minimum.v \/ length >= maximum.v
          THEN messageForError(model, field, value, "length.interval",
                 "Length must be between " \o ToString(minimum.v) \o " and "
                   \o ToString(maximum.v), options)
          ELSE Pass
     ELSE IF minimum # Undefined
     THEN IF length <= minimum.v
          THEN messageForError(model, field, value, "length.minimum",
                 "Length must be greater than " \o ToString(minimum.v), options)
          ELSE Pass
     ELSE IF maximum # Undefined
     THEN IF length >= maximum.v
          THEN messageForError(model, field, value, "length.maximum",
                 "Length must be less than " \o ToString(maximum.v), options)
          ELSE Pass
     ELSE Pass

\* Mutant: a value without a length passes when no bound is set.
validateLength_PassesWithoutLength(model, field, value, options) ==
  LET minimum == Get(options, Str("minimum"))
      maximum == Get(options, Str("maximum"))
  IN IF minimum = Undefined /\ maximum = Undefined THEN Pass
     ELSE IF ~hasLength(value) THEN Throw("InvalidValueForConstraintError", << >>)
     ELSE IF (minimum # Undefined /\ LengthOf(value) < minimum.v)
             \/ (maximum # Undefined /\ LengthOf(value) > maximum.v)
     THEN messageForError(model, field, value, "length", "Length out of bounds", options)
     ELSE Pass

validateLength(model, field, value, options) ==
  LET minimum == Get(options, Str("minimum"))
      maximum == Get(options, Str("maximum"))
      length == LengthOf(value)
  IN IF ~hasLength(value) THEN Throw("InvalidValueForConstraintError", << >>)
     ELSE IF minimum # Undefined /\ maximum # Undefined
     THEN IF length < minimum.v \/ length > maximum.v
          THEN messageForError(model, field, value, "length.interval",
                 "Length must be between " \o ToString(minimum.v) \o " and "
                   \o ToString(maximum.v), options)
          ELSE Pass
     ELSE IF minimum # Undefined
     THEN IF length < minimum.v
          THEN messageForError(model, field, value, "length.minimum",
                 "Length must be greater than " \o ToString(minimum.v), options)
          ELSE Pass
     ELSE IF maximum # Undefined
     THEN IF length > maximum.v
          THEN messageForError(model, field, value, "length.maximum",
                 "Length must be less than " \o ToString(maximum.v), options)
          ELSE Pass
     ELSE Pass

validateEmail(model, field, value, options) ==
  IF TypeOf(value) # "string" THEN Throw("InvalidValueForConstraintError", << >>)
  ELSE IF ~isEmailValid(value.v)
  THEN messageForError(model, field, value, "email", "Must be a valid email address", options)
  ELSE Pass

validateFormat(model, field, value, options) ==
  IF TypeOf(value) # "string" THEN Throw("InvalidValueForConstraintError", << >>)
  ELSE IF ~StringMatch(value.v, Get(options, Str("with")))
  THEN messageForError(model, field, value, "format", "Must have a valid format", options)
  ELSE Pass

validateConfirmation(model, field, value, options) ==
  LET on == Get(options, Str("on"))
  IN IF ~StrictEquals(value, Get(model, ToPropertyKey(on)))
     THEN messageForError(model, field, value, "confirmation",
                          "Must match '" \o StringOf(on) \o "'", options)
     ELSE Pass

validateInclusion(model, field, value, options) ==
  LET in == Get(options, Str("in")).v
  IN IF ~(\E i \in DOMAIN in : SameValueZero(in[i], value))
     THEN messageForError(model, field, value, "inclusion", "Must be an allowed value", options)
     ELSE Pass

\* Mutant: membership coerces, the string '5' is found where 5 is listed.
validateExclusion_Coerces(model, field, value, options) ==
  LET from == Get(options, Str("from")).v
  IN IF \E i \in DOMAIN from : from[i] = value \/ (from[i] = Num(5) /\ value = Str("5"))
     THEN messageForError(model, field, value, "inclusion",
                          "Must not be a disallowed value", options)
     ELSE Pass

validateExclusion(model, field, value, options) ==
  LET from == Get(options, Str("from")).v
  IN IF \E i \in DOMAIN from : SameValueZero(from[i], value)
     THEN messageForError(model, field, value, "inclusion",
                          "Must not be a disallowed value", options)
     ELSE Pass

\* Mutant: a value that is not a string fails the constraint.
validateUUID_FailsNonString(model, field, value, options) ==
  IF TypeOf(value) # "string" \/ ~isUUIDValid(value.v)
  THEN messageForError(model, field, value, "uuid", "Must contain a valid UUID", options)
  ELSE Pass

validateUUID(model, field, value, options) ==
  IF TypeOf(value) # "string" THEN Throw("InvalidValueForConstraintError", << >>)
  ELSE IF ~isUUIDValid(value.v)
  THEN messageForError(model, field, value, "uuid", "Must contain a valid UUID", options)
  ELSE Pass

\* validateCustom returns whatever options.with(model, field, value, options)
\* returns; the call itself is made by the action that dispatches it.
validateCustom(model, field, value, options) ==
  [type |-> "custom", value |-> Get(options, Str("with")),
   calls |-> <<Call("custom", Get(options, Str("with")), Arr(<<model, field, value, options>>))>>]

(***************************************************************************)
(* core.ts: validateConstraint, from the switch on                         *)
(***************************************************************************)
\* Mutant: an unknown constraint name passes silently.
unknownConstraint_Passes(constraint) == Pass

\* default: throw new UnknownConstraintError(`Unknown constraint ${constraint}`)
unknownConstraint(constraint) == Throw("UnknownConstraintError", << >>)

\* Mutant: a failed required-option check lets the constraint pass.
RequiredOptionMissing_Passes == Pass

\* throw new RequiredOptionMissingError(errorMessage)
RequiredOptionMissing == Throw("RequiredOptionMissingError", << >>)

\* A call of a validator by the dispatcher: the completion of the validator,
\* with the call itself recorded ahead of the calls the validator made.
Invoked(validator, value, c) ==
  [c EXCEPT !.calls = <<Call("validator", Str(validator), value)>> \o @]

switchConstraint(model, field, value, constraint, options) ==
  CASE constraint = "presence" -> Invoked("validatePresence", value, validatePresence(model, field, value, options))
    [] constraint = "absence" -> Invoked("validateAbsence", value, validateAbsence(model, field, value, options))
    [] constraint = "type" ->
         IF \/ ~In(Str("type"), options)
            \/ ~(TypeOf(Get(options, Str("type"))) = "string"
                 /\ Get(options, Str("type")).v \in TYPE_VALUES)
         THEN RequiredOptionMissing
         ELSE Invoked("validateType", value, validateType(model, field, value, options))
    [] constraint = "instance" ->
         IF \/ ~In(Str("Constructor"), options)
            \/ TypeOf(Get(options, Str("constructor"))) # "function"
         THEN Throw("InvalidValueForConstraintError", << >>)
         ELSE Invoked("validateInstance", value, validateInstance(model, field, value, options))
    [] constraint = "length" -> Invoked("validateLength", value, validateLength(model, field, value, options))
    [] constraint = "email" -> Invoked("validateEmail", value, validateEmail(model, field, value, options))
    [] constraint = "format" ->
         IF \/ ~In(Str("pattern"), options)
            \/ Get(options, Str("pattern")).k # "regexp"
         THEN RequiredOptionMissing
         ELSE Invoked("validateFormat", value, validateFormat(model, field, value, options))
    [] constraint = "confirmation" ->
         IF \/ ~In(Str("on"), options)
            \/ TypeOf(Get(options, Str("on"))) \notin {"string", "number", "symbol"}
         THEN RequiredOptionMissing
         ELSE Invoked("validateConfirmation", value, validateConfirmation(model, field, value, options))
    [] constraint = "inclusion" ->
         IF ~In(Str("in"), options) \/ Get(options, Str("in")).k # "array"
         THEN RequiredOptionMissing
         ELSE Invoked("validateInclusion", value, validateInclusion(model, field, value, options))
    [] constraint = "exclusion" ->
         IF ~In(Str("from"), options) \/ Get(options, Str("from")).k # "array"
         THEN RequiredOptionMissing
         ELSE Invoked("validateExclusion", value, validateExclusion(model, field, value, options))
    [] constraint = "uuid" -> Invoked("validateUUID", value, validateUUID(model, field, value, options))
    [] constraint = "custom" ->
         IF \/ ~In(Str("with"), options)
            \/ TypeOf(Get(options, Str("with"))) # "function"
         THEN RequiredOptionMissing
         ELSE Invoked("validateCustom", value, validateCustom(model, field, value, options))
    [] OTHER -> unknownConstraint(constraint)

\* if (options === true) options = {}
normalizeOptions(options) == IF options = Bool(TRUE) THEN Obj(<< >>) ELSE options

(***************************************************************************)
(* Object.entries(o): the own string-keyed properties; the keys that are   *)
(* array indices come first in ascending order, the other strings follow   *)
(* in insertion order; symbol keys are not listed.                         *)
(***************************************************************************)
\* The array-index strings of the model and their numeric value.
IndexValue(s) ==
  CASE s = "0" -> 0 [] s = "1" -> 1 [] s = "2" -> 2 [] OTHER -> -1

IsIndexKey(key) == key.k = "string" /\ IndexValue(key.v) >= 0

RECURSIVE SortByIndex(_)
SortByIndex(props) ==
  IF props = << >> THEN << >>
  ELSE LET m == CHOOSE i \in DOMAIN props :
                  \A j \in DOMAIN props : IndexValue(props[i][1].v) <= IndexValue(props[j][1].v)
       IN <<props[m]>> \o SortByIndex(SelectSeq(props, LAMBDA p : p # props[m]))

\* Mutant: the string keys are listed in insertion order, whatever they are.
ObjectEntries_InsertionOrder(o) == SelectSeq(o.v, LAMBDA p : p[1].k = "string")

ObjectEntries(o) ==
  SortByIndex(SelectSeq(o.v, LAMBDA p : IsIndexKey(p[1])))
  \o SelectSeq(o.v, LAMBDA p : p[1].k = "string" /\ ~IsIndexKey(p[1]))

\* o[key] = value on an object held as its property sequence
SetProp(props, key, value) ==
  IF HasOwn(props, key)
  THEN [i \in DOMAIN props |-> IF props[i][1] = key THEN <<key, value>> ELSE props[i]]
  ELSE Append(props, <<key, value>>)

(***************************************************************************)
(* The functions the caller supplies in the options: what the promise of a *)
(* call settles to.                                                        *)
(***************************************************************************)
Fulfilled(value) == [status |-> "fulfilled", value |-> value]
Rejected(value) == [status |-> "rejected", value |-> value]
Pending == [status |-> "pending", value |-> Undefined]

\* options.if(value, model, field)
IfSettlement(fn, value, m, field) ==
  CASE fn.v = "ifTrue" -> Fulfilled(Bool(TRUE))
    [] fn.v = "ifFalse" -> Fulfilled(Bool(FALSE))
    [] fn.v = "ifPresent" -> Fulfilled(Bool(~isNone(value)))
    [] fn.v = "ifSets" -> Fulfilled(Bool(TRUE))
    [] OTHER -> Rejected(ErrorOf("Error"))

\* The model after options.if(value, model, field) ran: the engine hands the
\* callback the model itself, which the callback may write to.
IfEffect(fn, value, m, field) ==
  IF fn.v = "ifSets" THEN Obj(SetProp(m.v, Str("b"), Str("abc"))) ELSE m

\* The model after options.with(model, field, value, options) ran.
CustomEffect(fn, m, field, value, options) ==
  IF fn.v = "customSets" THEN Obj(SetProp(m.v, field, Str("abc"))) ELSE m

\* options.with(model, field, value, options)
CustomSettlement(fn, m, field, value, options) ==
  CASE fn.v = "customFail" -> Fulfilled(Str("custom failed"))
    [] fn.v = "customPass" -> Fulfilled(Undefined)
    [] fn.v = "customEmpty" -> Fulfilled(Str(""))
    [] fn.v = "customSets" -> Fulfilled(Undefined)
    [] OTHER -> Rejected(ErrorOf("Error"))

(***************************************************************************)
(* State                                                                   *)
(***************************************************************************)
VARIABLES
  model,     \* the object under validation
  call,      \* the call made: [fn, field, constraints, haltBy]
  pc,        \* where the call stands: "called", "validate", "validateField",
             \* "awaitIf", "awaitCustom", "settled"
  vEntries,  \* validate: Object.entries(modelConstraints)
  vi,        \* validate: index in vEntries of the field being validated
  vResult,   \* validate: result, as its property sequence
  fField,    \* validateField: field
  fEntries,  \* validateField: Object.entries(constraints)
  fi,        \* validateField: index in fEntries of the constraint dispatched
  fHaltBy,   \* validateField: haltBy
  fResult,   \* validateField: result
  cValue,    \* validateConstraint: value
  outcome,   \* the promise the call returned
  log        \* the dispatches and the calls to caller-supplied functions so far

vars == <<model, call, pc, vEntries, vi, vResult, fField, fEntries, fi, fHaltBy,
          fResult, cValue, outcome, log>>

Event(field, constraint, c) ==
  [field |-> field, constraint |-> constraint, ev |-> c.ev, key |-> c.key, params |-> c.params]

Events(field, constraint, calls) ==
  [i \in DOMAIN calls |-> Event(field, constraint, calls[i])]

(***************************************************************************)
(* The calls of the model                                                  *)
(***************************************************************************)
MaxFields == 2
MaxConstraints == 2

\* Constraint entries <<name, options>> a field's constraints are drawn from.
Catalogue ==
  { P("presence", Bool(TRUE)),
    P("presence", Obj(<< P("i18n", Obj(<< P("handler", HandlerOf("mockEngine")) >>)) >>)),
    P("absence", Obj(<< P("if", Fn("ifFalse")), P("message", Str("Must be gone")) >>)),
    P("length", Obj(<< P("minimum", Num(5)) >>)),
    P("custom", Obj(<< P("if", Fn("ifPresent")), P("with", Fn("customFail")) >>)),
    P("type", Bool(TRUE)),
    P("bogus", Bool(TRUE)),
    P("bogus", Obj(<< P("if", Fn("ifFalse")) >>)) }

FieldKeys == {Str("a"), Str("b"), Str("1")}
FieldValues == {Undefined, Str("abc")}

\* The property sequences of at most n entries of S, no key twice.
RECURSIVE PropsOf(_, _)
PropsOf(S, n) ==
  IF n = 0 THEN {<< >>}
  ELSE LET shorter == PropsOf(S, n - 1)
       IN shorter \cup {Append(l, e) : <<l, e>> \in {x \in shorter \X S : ~HasOwn(x[1], x[2][1])}}

FieldConstraintsSet == {Obj(l) : l \in PropsOf(Catalogue, MaxConstraints)}

\* A model: the fields given a value other than undefined.
KeyOrder == <<Str("a"), Str("b"), Str("1"), Sym("s")>>

ModelOf(f) ==
  LET ks == SelectSeq(KeyOrder, LAMBDA key : key \in DOMAIN f /\ f[key] # Undefined)
  IN Obj([i \in DOMAIN ks |-> <<ks[i], f[ks[i]]>>])

ModelsOf(keys) == {ModelOf(f) : f \in [keys -> FieldValues]}

HaltByValues == {Undefined, Str("never"), Str("first-error"), Str("first-field-error")}

\* At most MaxFields fields, declared in any order, under the same constraints.
ModelConstraintsSet ==
  UNION { PropsOf(FieldKeys \X {c}, MaxFields) : c \in FieldConstraintsSet }

\* validate(model, { f1: constraints, f2: constraints, ... }, { haltBy })
ValidateCalls ==
  { [fn |-> "validate", field |-> Undefined, constraints |-> Obj(mc), haltBy |-> h] :
      <<mc, h>> \in ModelConstraintsSet \X HaltByValues }

\* validateField(model, field, constraints, { haltBy })
ValidateFieldCalls ==
  { [fn |-> "validateField", field |-> f, constraints |-> c, haltBy |-> h] :
      <<f, c, h>> \in (FieldKeys \cup {Sym("s")}) \X FieldConstraintsSet
                        \X (HaltByValues \ {Str("first-field-error")}) }

\* The keys a call validates.
FieldsOf(c) ==
  IF c.fn = "validateField" THEN {c.field}
  ELSE {c.constraints.v[i][1] : i \in DOMAIN c.constraints.v}

Init ==
  /\ call \in ValidateCalls \cup ValidateFieldCalls
  /\ model \in ModelsOf(FieldsOf(call))
  /\ pc = "called"
  /\ vEntries = << >>
  /\ vi = 0
  /\ vResult = << >>
  /\ fField = Undefined
  /\ fEntries = << >>
  /\ fi = 0
  /\ fHaltBy = Undefined
  /\ fResult = << >>
  /\ cValue = Undefined
  /\ outcome = Pending
  /\ log = << >>

(***************************************************************************)
(* core.ts: the stretches of validate, validateField and                   *)
(* validateConstraint that follow an await.  Each sets pc, outcome, vi,    *)
(* vResult, fi and fResult.                                                *)
(***************************************************************************)
\* { haltBy = 'never' } = {}
haltByOf(c) == IF c.haltBy = Undefined THEN Str("never") ELSE c.haltBy

\* Mutant: only 'first-error' is handed down to the fields.
haltFieldValidationBy_OnlyFirstError(c) ==
  IF haltByOf(c) = Str("first-error") THEN Str("first-error") ELSE Str("never")

\* Mutant: under 'first-error' the fields themselves are not halted.
haltFieldValidationBy_NeverForFirstError(c) ==
  IF haltByOf(c) = Str("first-field-error") THEN Str("first-error") ELSE Str("never")

\* validate: haltBy !== 'never' ? 'first-error' : 'never'
haltFieldValidationBy(c) ==
  IF haltByOf(c) # Str("never") THEN Str("first-error") ELSE Str("never")

\* Mutant: the error is swallowed and the messages collected so far returned.
Rejects_ReturnsPartial(error) ==
  /\ pc' = "settled"
  /\ outcome' = Fulfilled(IF call.fn = "validate" THEN Obj(vResult) ELSE Arr(fResult))
  /\ UNCHANGED <<vi, vResult, fi, fResult>>

\* A throw or a rejection leaves every async function on the stack.
Rejects(error) ==
  /\ pc' = "settled"
  /\ outcome' = Rejected(error)
  /\ UNCHANGED <<vi, vResult, fi, fResult>>

\* Mutant: the loop over the fields never breaks.
validateResumes_NeverBreaks(errors) ==
  /\ vResult' = IF Len(errors) > 0
                THEN SetProp(vResult, vEntries[vi][1], Arr(errors))
                ELSE vResult
  /\ pc' = "validate"
  /\ outcome' = outcome
  /\ vi' = vi + 1

\* Mutant: the errors of a field are stored even when there are none.
validateResumes_StoresAlways(errors) ==
  LET stored == SetProp(vResult, vEntries[vi][1], Arr(errors))
  IN /\ vResult' = stored
     /\ IF Len(errors) > 0 /\ haltByOf(call) = Str("first-error")
        THEN /\ pc' = "settled"
             /\ outcome' = Fulfilled(Obj(stored))
             /\ vi' = vi
        ELSE /\ pc' = "validate"
             /\ outcome' = outcome
             /\ vi' = vi + 1

\* validate, after `await validateField(...)`
validateResumes(errors) ==
  LET stored == IF Len(errors) > 0
                THEN SetProp(vResult, vEntries[vi][1], Arr(errors))
                ELSE vResult
  IN /\ vResult' = stored
     /\ IF Len(errors) > 0 /\ haltByOf(call) = Str("first-error")
        THEN /\ pc' = "settled"
             /\ outcome' = Fulfilled(Obj(stored))
             /\ vi' = vi
        ELSE /\ pc' = "validate"
             /\ outcome' = outcome
             /\ vi' = vi + 1

\* validateField: `return result`
validateFieldReturns(errors) ==
  IF call.fn = "validateField"
  THEN /\ pc' = "settled"
       /\ outcome' = Fulfilled(Arr(errors))
       /\ UNCHANGED <<vi, vResult>>
  ELSE validateResumes(errors)

\* Mutant: the loop over the constraints never breaks.
validateFieldResumes_NeverHalts(error) ==
  /\ fResult' = IF Truthy(error) THEN Append(fResult, error) ELSE fResult
  /\ fi' = fi + 1
  /\ pc' = "validateField"
  /\ UNCHANGED <<vi, vResult, outcome>>

\* Mutant: the loop over the constraints breaks at any error, whatever haltBy.
validateFieldResumes_AlwaysHalts(error) ==
  LET result == IF Truthy(error) THEN Append(fResult, error) ELSE fResult
  IN /\ fResult' = result
     /\ IF Truthy(error)
        THEN /\ fi' = fi
             /\ validateFieldReturns(result)
        ELSE /\ fi' = fi + 1
             /\ pc' = "validateField"
             /\ UNCHANGED <<vi, vResult, outcome>>

\* Mutant: any string the constraint resolves to counts as an error, the
\* empty one included.
validateFieldResumes_AppendsAnyString(error) ==
  LET failed == error.k = "string"
      result == IF failed THEN Append(fResult, error) ELSE fResult
  IN /\ fResult' = result
     /\ IF failed /\ fHaltBy = Str("first-error")
        THEN /\ fi' = fi
             /\ validateFieldReturns(result)
        ELSE /\ fi' = fi + 1
             /\ pc' = "validateField"
             /\ UNCHANGED <<vi, vResult, outcome>>

\* validateField, after `await validateConstraint(...)`
validateFieldResumes(error) ==
  LET result == IF Truthy(error) THEN Append(fResult, error) ELSE fResult
  IN /\ fResult' = result
     /\ IF Truthy(error) /\ fHaltBy = Str("first-error")
        THEN /\ fi' = fi
             /\ validateFieldReturns(result)
        ELSE /\ fi' = fi + 1
             /\ pc' = "validateField"
             /\ UNCHANGED <<vi, vResult, outcome>>

\* Mutant: the promise of the custom validator is not awaited, the loop goes
\* on to the next constraint while it is pending.
validateConstraintSwitches_FireAndForget(m, value, before) ==
  LET constraint == fEntries[fi][1].v
      options == normalizeOptions(fEntries[fi][2])
      c == switchConstraint(m, fField, value, constraint, options)
  IN /\ log' = log \o before \o Events(fField, constraint, c.calls)
     /\ CASE c.type = "return" -> validateFieldResumes(c.value)
          [] c.type = "throw" -> Rejects(c.value)
          [] OTHER -> validateFieldResumes(Undefined)

\* validateConstraint, from the switch to its return, throw or await, on
\* the model as it is by then; `before` are the events of this action that
\* precede the switch.
validateConstraintSwitches(m, value, before) ==
  LET constraint == fEntries[fi][1].v
      options == normalizeOptions(fEntries[fi][2])
      c == switchConstraint(m, fField, value, constraint, options)
  IN /\ log' = log \o before \o Events(fField, constraint, c.calls)
     /\ CASE c.type = "return" -> validateFieldResumes(c.value)
          [] c.type = "throw" -> Rejects(c.value)
          [] OTHER -> /\ pc' = "awaitCustom"
                      /\ UNCHANGED <<vi, vResult, fi, fResult, outcome>>

(***************************************************************************)
(* Actions                                                                 *)
(***************************************************************************)
\* validate is called: up to the head of its loop
callValidate ==
  /\ pc = "called"
  /\ call.fn = "validate"
  /\ vEntries' = ObjectEntries(call.constraints)
  /\ vi' = 1
  /\ vResult' = << >>
  /\ pc' = "validate"
  /\ UNCHANGED <<model, call, fField, fEntries, fi, fHaltBy, fResult, cValue, outcome, log>>

\* validateField is called by the caller: up to the head of its loop
callValidateField ==
  /\ pc = "called"
  /\ call.fn = "validateField"
  /\ fField' = call.field
  /\ fEntries' = ObjectEntries(call.constraints)
  /\ fi' = 1
  /\ fHaltBy' = haltByOf(call)
  /\ fResult' = << >>
  /\ pc' = "validateField"
  /\ UNCHANGED <<model, call, vEntries, vi, vResult, cValue, outcome, log>>

\* validate at the head of its loop: call validateField on the next field,
\* or return the result
validateNext ==
  /\ pc = "validate"
  /\ IF vi > Len(vEntries)
     THEN /\ pc' = "settled"
          /\ outcome' = Fulfilled(Obj(vResult))
          /\ UNCHANGED <<fField, fEntries, fi, fHaltBy, fResult>>
     ELSE /\ fField' = vEntries[vi][1]
          /\ fEntries' = ObjectEntries(vEntries[vi][2])
          /\ fi' = 1
          /\ fHaltBy' = haltFieldValidationBy(call)
          /\ fResult' = << >>
          /\ pc' = "validateField"
          /\ outcome' = outcome
  /\ UNCHANGED <<model, call, vEntries, vi, vResult, cValue, log>>

\* Mutant: the value is read at the first constraint of the field and kept
\* for the others.
validateFieldNext_ReadsOnce ==
  /\ pc = "validateField"
  /\ IF fi > Len(fEntries)
     THEN /\ validateFieldReturns(fResult)
          /\ UNCHANGED <<fi, fResult, cValue, log>>
     ELSE LET constraint == fEntries[fi][1].v
              options == normalizeOptions(fEntries[fi][2])
              value == IF fi = 1 THEN Get(model, fField) ELSE cValue
              dispatched == Event(fField, constraint, Call("dispatch", Undefined, value))
              if == Get(options, Str("if"))
          IN /\ cValue' = value
             /\ IF TypeOf(if) = "function"
                THEN /\ log' = log \o <<dispatched, Event(fField, constraint, Call("if", if, Arr(<<value, model, fField>>)))>>
                     /\ pc' = "awaitIf"
                     /\ UNCHANGED <<vi, vResult, fi, fResult, outcome>>
                ELSE validateConstraintSwitches(model, value, <<dispatched>>)
  /\ UNCHANGED <<model, call, vEntries, fField, fEntries, fHaltBy>>

\* validateField at the head of its loop: call validateConstraint on the
\* next constraint, which runs to its first await or to its end; or return
validateFieldNext ==
  /\ pc = "validateField"
  /\ IF fi > Len(fEntries)
     THEN /\ validateFieldReturns(fResult)
          /\ UNCHANGED <<fi, fResult, cValue, log>>
     ELSE LET constraint == fEntries[fi][1].v
              options == normalizeOptions(fEntries[fi][2])
              value == Get(model, fField)
              dispatched == Event(fField, constraint, Call("dispatch", Undefined, value))
              if == Get(options, Str("if"))
          IN /\ cValue' = value
             /\ IF TypeOf(if) = "function"
                THEN /\ log' = log \o <<dispatched, Event(fField, constraint, Call("if", if, Arr(<<value, model, fField>>)))>>
                     /\ pc' = "awaitIf"
                     /\ UNCHANGED <<vi, vResult, fi, fResult, outcome>>
                ELSE validateConstraintSwitches(model, value, <<dispatched>>)
  /\ UNCHANGED <<model, call, vEntries, fField, fEntries, fHaltBy>>

\* The settlement of a caller-supplied function, as the engine receives it.
Settled(ev, fn, s) == Event(fField, fEntries[fi][1].v, Call(ev, fn, s))

\* Mutant: the answer of options.if is ignored, the constraint always evaluated.
ifSettles_IgnoresAnswer ==
  /\ pc = "awaitIf"
  /\ LET options == normalizeOptions(fEntries[fi][2])
         if == Get(options, Str("if"))
         s == IfSettlement(if, cValue, model, fField)
         after == IfEffect(if, cValue, model, fField)
         settled == Settled("ifSettled", if, s)
     IN /\ model' = after
        /\ IF s.status = "rejected"
           THEN Rejects(s.value) /\ log' = Append(log, settled)
           ELSE validateConstraintSwitches(after, cValue, <<settled>>)
  /\ UNCHANGED <<call, vEntries, fField, fEntries, fHaltBy, cValue>>

\* Mutant: a rejection of options.if is caught and reported as a message
\* of the field.
ifSettles_CatchesRejection ==
  /\ pc = "awaitIf"
  /\ LET options == normalizeOptions(fEntries[fi][2])
         if == Get(options, Str("if"))
         s == IfSettlement(if, cValue, model, fField)
         after == IfEffect(if, cValue, model, fField)
         settled == Settled("ifSettled", if, s)
     IN /\ model' = after
        /\ IF s.status = "rejected"
           THEN validateFieldResumes(Str("Error")) /\ log' = Append(log, settled)
           ELSE IF ~Truthy(s.value)
           THEN validateFieldResumes(Undefined) /\ log' = Append(log, settled)
           ELSE validateConstraintSwitches(after, cValue, <<settled>>)
  /\ UNCHANGED <<call, vEntries, fField, fEntries, fHaltBy, cValue>>

\* Mutant: the constraint name and the required options are checked before
\* the answer of options.if is looked at.
ifSettles_RaisesWhenSkipped ==
  /\ pc = "awaitIf"
  /\ LET options == normalizeOptions(fEntries[fi][2])
         if == Get(options, Str("if"))
         s == IfSettlement(if, cValue, model, fField)
         after == IfEffect(if, cValue, model, fField)
         settled == Settled("ifSettled", if, s)
         c == switchConstraint(after, fField, cValue, fEntries[fi][1].v, options)
     IN /\ model' = after
        /\ IF s.status = "rejected"
           THEN Rejects(s.value) /\ log' = Append(log, settled)
           ELSE IF ~Truthy(s.value)
           THEN /\ log' = Append(log, settled)
                /\ IF c.type = "throw" THEN Rejects(c.value)
                   ELSE validateFieldResumes(Undefined)
           ELSE validateConstraintSwitches(after, cValue, <<settled>>)
  /\ UNCHANGED <<call, vEntries, fField, fEntries, fHaltBy, cValue>>

\* the promise of options.if settles
ifSettles ==
  /\ pc = "awaitIf"
  /\ LET options == normalizeOptions(fEntries[fi][2])
         if == Get(options, Str("if"))
         s == IfSettlement(if, cValue, model, fField)
         after == IfEffect(if, cValue, model, fField)
         settled == Settled("ifSettled", if, s)
     IN /\ model' = after
        /\ IF s.status = "rejected"
           THEN Rejects(s.value) /\ log' = Append(log, settled)
           ELSE IF ~Truthy(s.value)
           THEN validateFieldResumes(Undefined) /\ log' = Append(log, settled)
           ELSE validateConstraintSwitches(after, cValue, <<settled>>)
  /\ UNCHANGED <<call, vEntries, fField, fEntries, fHaltBy, cValue>>

\* Mutant: a message the custom validator resolves to goes through the
\* message resolver.
customSettles_Resolves ==
  /\ pc = "awaitCustom"
  /\ LET options == normalizeOptions(fEntries[fi][2])
         with == Get(options, Str("with"))
         s == CustomSettlement(with, model, fField, cValue, options)
     IN /\ model' = CustomEffect(with, model, fField, cValue, options)
        /\ log' = Append(log, Settled("customSettled", with, s))
        /\ IF s.status = "rejected"
           THEN Rejects(s.value)
           ELSE IF Truthy(s.value)
           THEN validateFieldResumes(
                  messageForError(model, fField, cValue, "custom", s.value.v, options).value)
           ELSE validateFieldResumes(s.value)
  /\ UNCHANGED <<call, vEntries, fField, fEntries, fHaltBy, cValue>>

\* the promise of options.with settles
customSettles ==
  /\ pc = "awaitCustom"
  /\ LET options == normalizeOptions(fEntries[fi][2])
         with == Get(options, Str("with"))
         s == CustomSettlement(with, model, fField, cValue, options)
     IN /\ model' = CustomEffect(with, model, fField, cValue, options)
        /\ log' = Append(log, Settled("customSettled", with, s))
        /\ IF s.status = "rejected"
           THEN Rejects(s.value)
           ELSE validateFieldResumes(s.value)
  /\ UNCHANGED <<call, vEntries, fField, fEntries, fHaltBy, cValue>>

Next ==
  \/ callValidate
  \/ callValidateField
  \/ validateNext
  \/ validateFieldNext
  \/ ifSettles
  \/ customSettles

Spec == Init /\ [][Next]_vars

(***************************************************************************)
(* What one dispatch of a constraint settles to, taken alone: the          *)
(* reference the loops of validateField and validate are checked against.  *)
(***************************************************************************)
dispatchOutcome(m, field, entry) ==
  LET options == normalizeOptions(entry[2])
      value == Get(m, field)
      if == Get(options, Str("if"))
      asked == TypeOf(if) = "function"
      answer == IfSettlement(if, value, m, field)
      c == switchConstraint(m, field, value, entry[1].v, options)
  IN IF asked /\ answer.status = "rejected" THEN answer
     ELSE IF asked /\ ~Truthy(answer.value) THEN Fulfilled(Undefined)
     ELSE CASE c.type = "return" -> Fulfilled(c.value)
            [] c.type = "throw" -> Rejected(c.value)
            [] OTHER -> CustomSettlement(c.value, m, field, value, options)

\* The constraint yields an error: its dispatch resolves to a message.
Fails(m, field, entry) ==
  LET o == dispatchOutcome(m, field, entry)
  IN o.status = "fulfilled" /\ Truthy(o.value)

\* The dispatch of the constraint rejects.
Aborts(m, field, entry) == dispatchOutcome(m, field, entry).status = "rejected"

\* The index of the first failing constraint of entries, 0 if none fails.
FirstFailing(m, field, entries) ==
  IF \E i \in DOMAIN entries : Fails(m, field, entries[i])
  THEN CHOOSE i \in DOMAIN entries :
         /\ Fails(m, field, entries[i])
         /\ \A j \in 1..(i - 1) : ~Fails(m, field, entries[j])
  ELSE 0

\* The position of a key in a property sequence, 0 if it has none.
IndexOfKey(props, key) ==
  IF HasOwn(props, key) THEN CHOOSE i \in DOMAIN props : props[i][1] = key ELSE 0

\* The names of the constraints of `field` dispatched so far, in order.
Dispatched(field) ==
  LET ds == SelectSeq(log, LAMBDA e : e.ev = "dispatch" /\ e.field = field)
  IN [i \in DOMAIN ds |-> Str(ds[i].constraint)]

Keys(props) == [i \in DOMAIN props |-> props[i][1]]

IsPrefix(s, t) == Len(s) <= Len(t) /\ \A i \in DOMAIN s : s[i] = t[i]

\* The messages of the failing constraints of entries, in order.
RECURSIVE FailureMessages(_, _, _)
FailureMessages(m, field, entries) ==
  IF entries = << >> THEN << >>
  ELSE (IF Fails(m, field, Head(entries))
        THEN <<dispatchOutcome(m, field, Head(entries)).value>>
        ELSE << >>) \o FailureMessages(m, field, Tail(entries))

DirectFieldCall(h) == call.fn = "validateField" /\ haltByOf(call) = Str(h)

(***************************************************************************)
(* C1: validateField with haltBy 'first-error' stops at the first          *)
(* constraint, in declared order, that yields an error: nothing of a later *)
(* constraint is ever invoked (no dispatch, no `if`, no validator or       *)
(* custom callback, no handler call), and the returned sequence holds      *)
(* exactly the message of that constraint; it is empty if none fails.      *)
(***************************************************************************)
C1_FirstErrorHaltsField ==
  DirectFieldCall("first-error") =>
    LET declared == call.constraints.v
        first == FirstFailing(model, call.field, declared)
    IN /\ first # 0 =>
            \A i \in DOMAIN log : IndexOfKey(declared, Str(log[i].constraint)) <= first
       /\ outcome.status = "fulfilled" =>
            outcome.value = IF first = 0 THEN Arr(<< >>)
                            ELSE Arr(<<dispatchOutcome(model, call.field, declared[first]).value>>)

\* A first-error call has returned the message of its first constraint and
\* left a second constraint, a custom one with an `if`, untouched.
C1_Witness ==
  /\ DirectFieldCall("first-error")
  /\ outcome.status = "fulfilled"
  /\ Len(call.constraints.v) = 2
  /\ call.constraints.v[2][1] = Str("custom")
  /\ FirstFailing(model, call.field, call.constraints.v) = 1
  /\ Fails(model, call.field, call.constraints.v[2])
  /\ Len(outcome.value.v) = 1

(***************************************************************************)
(* C2: validateField with haltBy 'never' (the default) dispatches the      *)
(* constraints one after the other, each once, whatever failed before: a   *)
(* call that returns has dispatched every constraint exactly once and      *)
(* returns the messages of exactly the failing ones, in that order.        *)
(***************************************************************************)
C2_NeverVisitsAll ==
  DirectFieldCall("never") =>
    LET declared == call.constraints.v
    IN /\ IsPrefix(Dispatched(call.field), Keys(declared))
       /\ outcome.status = "fulfilled" =>
            /\ Dispatched(call.field) = Keys(declared)
            /\ outcome.value = Arr(FailureMessages(model, call.field, declared))

\* A default-haltBy call has returned two messages.
C2_Witness ==
  /\ call.fn = "validateField"
  /\ call.haltBy = Undefined
  /\ outcome.status = "fulfilled"
  /\ Len(outcome.value.v) = 2
  /\ Fails(model, call.field, call.constraints.v[1])

(***************************************************************************)
(* validate against the same reference.  `visited` are the fields in the   *)
(* order validate visits them, Object.entries(modelConstraints).           *)
(***************************************************************************)
ModelCall(h) == call.fn = "validate" /\ haltByOf(call) = Str(h)

Visited == ObjectEntries(call.constraints)

\* The index of the first failing constraint of the n-th visited field.
FirstFailingOf(n) ==
  FirstFailing(model, Visited[n][1], ObjectEntries(Visited[n][2]))

\* The message of the first failing constraint of the n-th visited field.
FirstMessageOf(n) ==
  dispatchOutcome(model, Visited[n][1], ObjectEntries(Visited[n][2])[FirstFailingOf(n)]).value

\* The first visited field with a failing constraint, 0 if there is none.
FirstFailingField ==
  IF \E n \in DOMAIN Visited : FirstFailingOf(n) # 0
  THEN CHOOSE n \in DOMAIN Visited :
         FirstFailingOf(n) # 0 /\ \A m \in 1..(n - 1) : FirstFailingOf(m) = 0
  ELSE 0

\* Nothing of a constraint after the first failing one of its field was invoked.
HaltedInEveryField ==
  \A i \in DOMAIN log :
    LET n == IndexOfKey(Visited, log[i].field)
    IN FirstFailingOf(n) # 0 =>
         IndexOfKey(ObjectEntries(Visited[n][2]), Str(log[i].constraint)) <= FirstFailingOf(n)

\* For each visited field from the n-th on that has a failing constraint, the
\* field and the message of its first failing constraint.
RECURSIVE FirstMessagesFrom(_)
FirstMessagesFrom(n) ==
  IF n > Len(Visited) THEN << >>
  ELSE (IF FirstFailingOf(n) # 0
        THEN << <<Visited[n][1], Arr(<<FirstMessageOf(n)>>)>> >>
        ELSE << >>) \o FirstMessagesFrom(n + 1)

(***************************************************************************)
(* C3: validate with haltBy 'first-error' visits the fields in order up to *)
(* the first field that yields an error: nothing of a later field is ever  *)
(* invoked, within that field nothing after its first failing constraint,  *)
(* and the returned mapping holds that field alone, with that one message  *)
(* (it is empty if no field fails).                                        *)
(***************************************************************************)
C3_FirstErrorHaltsModel ==
  ModelCall("first-error") =>
    /\ FirstFailingField # 0 =>
         \A i \in DOMAIN log : IndexOfKey(Visited, log[i].field) <= FirstFailingField
    /\ HaltedInEveryField
    /\ outcome.status = "fulfilled" =>
         outcome.value =
           IF FirstFailingField = 0 THEN Obj(<< >>)
           ELSE Obj(<< <<Visited[FirstFailingField][1],
                         Arr(<<FirstMessageOf(FirstFailingField)>>)>> >>)

\* A first-error call over two fields has returned the first field's error;
\* the second field, whose custom validator would have failed, is untouched.
C3_Witness ==
  /\ ModelCall("first-error")
  /\ outcome.status = "fulfilled"
  /\ Len(Visited) = 2
  /\ FirstFailingField = 1
  /\ FirstFailingOf(2) # 0
  /\ \E j \in DOMAIN Visited[2][2].v : Visited[2][2].v[j][1] = Str("custom")
  /\ Keys(outcome.value.v) = <<Visited[1][1]>>

(***************************************************************************)
(* C4: validate with haltBy 'first-field-error' visits every declared      *)
(* field and stops each at its first failing constraint: the returned      *)
(* mapping holds exactly the fields with a failing constraint, each with   *)
(* the one message of its first failing constraint.                        *)
(***************************************************************************)
C4_FirstFieldError ==
  ModelCall("first-field-error") =>
    /\ HaltedInEveryField
    /\ outcome.status = "fulfilled" =>
         /\ outcome.value = Obj(FirstMessagesFrom(1))
         /\ \A n \in DOMAIN call.constraints.v :
              LET declared == call.constraints.v[n]
              IN declared[2].v # << >> => Dispatched(declared[1]) # << >>

\* A first-field-error call has returned one message for each of two fields
\* that both fail two constraints.
C4_Witness ==
  /\ ModelCall("first-field-error")
  /\ outcome.status = "fulfilled"
  /\ Len(outcome.value.v) = 2
  /\ \A n \in {1, 2} :
       /\ Len(FailureMessages(model, Visited[n][1], ObjectEntries(Visited[n][2]))) = 2
       /\ Len(outcome.value.v[n][2].v) = 1

C6_Case ==
  /\ call.fn = "validateField"
  /\ call.constraints = Obj(<< P("presence", Bool(TRUE)),
                               P("length", Obj(<< P("minimum", Num(5)) >>)) >>)
  /\ Get(model, call.field) = Undefined
  /\ pc = "settled"

C6_AsClaimed ==
  C6_Case =>
    /\ outcome.status = "fulfilled"
    /\ Len(outcome.value.v) = IF haltByOf(call) = Str("first-error") THEN 1 ELSE 2

(***************************************************************************)
(* C6 (amended): with haltBy 'first-error' the call returns exactly the    *)
(* presence message; with haltBy 'never' it rejects with the invalid-value *)
(* error validateLength throws for a value without a length, and returns   *)
(* no message.                                                             *)
(***************************************************************************)
C6_PresenceThenLength ==
  C6_Case =>
    IF haltByOf(call) = Str("first-error")
    THEN outcome = Fulfilled(Arr(<<Str("Must be present")>>))
    ELSE outcome = Rejected(ErrorOf("InvalidValueForConstraintError"))

\* The haltBy 'never' call has settled, after the dispatch of both constraints.
C6_Witness ==
  /\ C6_Case
  /\ haltByOf(call) = Str("never")
  /\ Dispatched(call.field) = <<Str("presence"), Str("length")>>
  /\ outcome.status = "rejected"

(***************************************************************************)
(* C7 (as claimed): a constraint set with an unknown name makes            *)
(* validateField fail with the unknown-constraint error without evaluating *)
(* any other constraint of the set, wherever the unknown name stands.      *)
(***************************************************************************)
C7_Case == call.fn = "validateField" /\ HasOwn(call.constraints.v, Str("bogus"))

C7_AsClaimed ==
  C7_Case =>
    /\ \A i \in DOMAIN log : log[i].constraint = "bogus"
    /\ pc = "settled" => outcome = Rejected(ErrorOf("UnknownConstraintError"))

(***************************************************************************)
(* C7 (amended): the unknown-constraint error is raised when the loop      *)
(* reaches the unknown name.  The constraints declared before it are       *)
(* evaluated first, and the call rejects with the error unless one of them *)
(* ended the call (by an error of its own, or by failing under             *)
(* 'first-error') or the unknown constraint's own `if` resolved to false;  *)
(* once it is raised, no constraint declared after it is evaluated.        *)
(***************************************************************************)
C7_UnknownWhenReached ==
  C7_Case =>
    LET declared == call.constraints.v
        p == IndexOfKey(declared, Str("bogus"))
        if == Get(normalizeOptions(declared[p][2]), Str("if"))
        raised == TypeOf(if) = "function" =>
                    Truthy(IfSettlement(if, Get(model, call.field), model, call.field).value)
        reached == \A j \in 1..(p - 1) :
                     /\ ~Aborts(model, call.field, declared[j])
                     /\ haltByOf(call) = Str("first-error") => ~Fails(model, call.field, declared[j])
    IN /\ raised => \A i \in DOMAIN log : IndexOfKey(declared, Str(log[i].constraint)) <= p
       /\ (pc = "settled" /\ raised /\ reached) =>
            /\ outcome = Rejected(ErrorOf("UnknownConstraintError"))
            /\ Dispatched(call.field) = Keys(SubSeq(declared, 1, p))
       /\ (pc = "settled" /\ ~(raised /\ reached)) =>
            outcome # Rejected(ErrorOf("UnknownConstraintError"))

\* The call has rejected with the unknown-constraint error after it called
\* the custom validator declared before the unknown name.
C7_Witness ==
  /\ C7_Case
  /\ outcome = Rejected(ErrorOf("UnknownConstraintError"))
  /\ IndexOfKey(call.constraints.v, Str("bogus")) = 2
  /\ \E i \in DOMAIN log : log[i].ev = "custom"

(***************************************************************************)
(* C8: a configuration error raised by a constraint ends the call: nothing *)
(* is evaluated after that constraint, the call rejects with the error and *)
(* returns no result, whatever messages were collected before, and no      *)
(* error is ever stored as a message.                                      *)
(***************************************************************************)
ConfigurationErrors ==
  {ErrorOf("UnknownConstraintError"), ErrorOf("RequiredOptionMissingError"),
   ErrorOf("InvalidValueForConstraintError")}

\* The constraints declared for a field by the call.
ConstraintsOf(field) ==
  IF call.fn = "validate" THEN Get(call.constraints, field) ELSE call.constraints

\* The entry <<name, options>> a log event belongs to.
EntryOf(e) == <<Str(e.constraint), GetOwn(ConstraintsOf(e.field).v, Str(e.constraint))>>

AllStrings(messages) == \A i \in DOMAIN messages : messages[i].k = "string"

C8_ConfigurationErrorAborts ==
  /\ \A i \in DOMAIN log :
       LET o == dispatchOutcome(model, log[i].field, EntryOf(log[i]))
       IN (log[i].ev = "dispatch" /\ o.status = "rejected" /\ o.value \in ConfigurationErrors) =>
            /\ \A j \in (i + 1)..Len(log) :
                 /\ log[j].ev # "dispatch"
                 /\ log[j].field = log[i].field
                 /\ log[j].constraint = log[i].constraint
            /\ pc \in {"awaitIf", "settled"}
            /\ pc = "settled" => outcome = o
  /\ AllStrings(fResult)
  /\ \A n \in DOMAIN vResult : AllStrings(vResult[n][2].v)
  /\ outcome.status = "fulfilled" =>
       IF call.fn = "validate"
       THEN \A n \in DOMAIN outcome.value.v : AllStrings(outcome.value.v[n][2].v)
       ELSE AllStrings(outcome.value.v)

\* A validate call has rejected with a configuration error of its second
\* field although it had stored the messages of the first.
C8_Witness ==
  /\ call.fn = "validate"
  /\ pc = "settled"
  /\ outcome.status = "rejected"
  /\ outcome.value \in ConfigurationErrors
  /\ vi = 2
  /\ vResult # << >>

(***************************************************************************)
(* The message resolver alone: one call of messageForError.                *)
(***************************************************************************)
MessageOptions ==
  { << >>, << P("message", Str("")) >>, << P("message", Str(" ")) >>,
    << P("message", Str("I am always returned")) >> }

I18nOptions ==
  { << >>,
    << P("i18n", Obj(<< P("handler", HandlerOf("mockEngine")) >>)) >>,
    << P("i18n", Obj(<< P("handler", HandlerOf("mockEngine")), P("key", Str("anEntry")) >>)) >>,
    << P("i18n", Obj(<< P("handler", HandlerOf("mockEngine")), P("key", Str("notAnEntry")) >>)) >>,
    << P("i18n", Obj(<< P("handler", HandlerOf("mockEngine")), P("key", Str("emptyEntry")) >>)) >>,
    << P("i18n", Obj(<< P("key", Str("anEntry")) >>)) >> }

OtherOptions ==
  { << >>,
    << P("minimum", Num(5)) >>,
    << P("name", Str("Test User")), P("if", Fn("ifTrue")) >>,
    << P("value", Str("shadow")) >> }

ResolverCalls ==
  { [fn |-> "messageForError", field |-> f, value |-> v, constraint |-> c,
     defaultMessage |-> "I am the default", options |-> Obj(m \o i \o o)] :
      <<f, v, c, m, i, o>> \in
        {Str("a"), Sym("s")} \X FieldValues \X {"presence", "absence", "length.minimum"}
          \X MessageOptions \X I18nOptions \X OtherOptions }

InitResolver ==
  /\ call \in ResolverCalls
  /\ model \in ModelsOf({call.field})
  /\ pc = "called"
  /\ vEntries = << >>
  /\ vi = 0
  /\ vResult = << >>
  /\ fField = Undefined
  /\ fEntries = << >>
  /\ fi = 0
  /\ fHaltBy = Undefined
  /\ fResult = << >>
  /\ cValue = Undefined
  /\ outcome = Pending
  /\ log = << >>

\* messageForError is called and returns
callMessageForError ==
  /\ pc = "called"
  /\ call.fn = "messageForError"
  /\ LET r == messageForError(model, call.field, call.value, call.constraint,
                              call.defaultMessage, call.options)
     IN /\ outcome' = Fulfilled(r.value)
        /\ log' = Events(call.field, call.constraint, r.calls)
  /\ pc' = "settled"
  /\ UNCHANGED <<model, call, vEntries, vi, vResult, fField, fEntries, fi, fHaltBy,
                 fResult, cValue>>

NextResolver == callMessageForError

SpecResolver == InitResolver /\ [][NextResolver]_vars

Resolved == call.fn = "messageForError" /\ pc = "settled"

RegisteredText(handler, key) ==
  {Registry(handler)[n][2] : n \in {m \in DOMAIN Registry(handler) : Registry(handler)[m][1] = key}}

C10_I18nLookup ==
  LET i18n == Get(call.options, Str("i18n"))
      handler == Get(i18n, Str("handler"))
      lookupKey == IF HasOwn(i18n.v, Str("key")) THEN Get(i18n, Str("key")).v
                   ELSE "validation." \o call.constraint
  IN (/\ Resolved
      /\ ~HasOwn(call.options.v, Str("message"))
      /\ HasOwn(call.options.v, Str("i18n"))
      /\ HasOwn(i18n.v, Str("handler"))) =>
       /\ Len(log) >= 1
       /\ log[1].ev = "exists" /\ log[1].key = Str(lookupKey)
       /\ \A text \in RegisteredText(handler, lookupKey) :
            /\ outcome.value = Str(text)
            /\ Len(log) = 2
            /\ log[2].ev = "t" /\ log[2].key = Str(lookupKey)

\* The translation of options.i18n.key was returned for a constraint whose
\* own key 'validation.presence' the handler knows too.
C10_Witness ==
  /\ Resolved
  /\ call.constraint = "presence"
  /\ ~HasOwn(call.options.v, Str("message"))
  /\ Get(call.options, Str("i18n")) =
       Obj(<< P("handler", HandlerOf("mockEngine")), P("key", Str("anEntry")) >>)
  /\ outcome.value = Str("this is a value")

(***************************************************************************)
(* C11: with no options.message, and either no i18n handler or a handler   *)
(* that does not know the lookup key (options.i18n.key if given, else      *)
(* 'validation.' + constraint), the resolver returns the default message   *)
(* verbatim and never calls the handler's t.                               *)
(***************************************************************************)
C11_DefaultMessage ==
  LET i18n == Get(call.options, Str("i18n"))
      noHandler == ~HasOwn(call.options.v, Str("i18n")) \/ ~HasOwn(i18n.v, Str("handler"))
      lookupKey == IF HasOwn(i18n.v, Str("key")) THEN Get(i18n, Str("key")).v
                   ELSE "validation." \o call.constraint
  IN (/\ Resolved
      /\ ~HasOwn(call.options.v, Str("message"))
      /\ noHandler \/ RegisteredText(Get(i18n, Str("handler")), lookupKey) = {}) =>
       /\ outcome.value = Str(call.defaultMessage)
       /\ \A i \in DOMAIN log : log[i].ev # "t"

\* The default was returned after the handler was asked for an explicit key
\* it does not know, for a constraint whose own key it knows.
C11_Witness ==
  /\ Resolved
  /\ call.constraint = "presence"
  /\ ~HasOwn(call.options.v, Str("message"))
  /\ Get(call.options, Str("i18n")) =
       Obj(<< P("handler", HandlerOf("mockEngine")), P("key", Str("notAnEntry")) >>)
  /\ outcome.value = Str("I am the default")
  /\ Len(log) = 1 /\ log[1].ev = "exists"

(***************************************************************************)
(* C12: a constraint whose options.if is a function has it invoked exactly *)
(* once, right after the dispatch, with (value, model, field).  If it      *)
(* resolves to false the constraint is a pass: no validator, no custom     *)
(* callback and no handler is invoked for it and it adds no message.  If   *)
(* it resolves to true the validator is invoked next and the constraint    *)
(* yields what the same constraint without `if` yields.                    *)
(***************************************************************************)
\* The entry with its `if` option taken away.
Unconditional(entry) ==
  IF entry[2].k = "object"
  THEN <<entry[1], Obj(Omit(entry[2].v, {Str("if")}))>>
  ELSE entry

\* What options.if of the entry resolves to for the field.
IfAnswer(m, field, entry) ==
  IfSettlement(Get(normalizeOptions(entry[2]), Str("if")), Get(m, field), m, field)

Conditional(entry) == TypeOf(Get(normalizeOptions(entry[2]), Str("if"))) = "function"

\* What the claim expects of a dispatch: a pass when `if` says false, else
\* the outcome of the unconditional constraint.
ExpectedOutcome(m, field, entry) ==
  IF Conditional(entry) /\ IfAnswer(m, field, entry) = Fulfilled(Bool(FALSE))
  THEN Fulfilled(Undefined)
  ELSE dispatchOutcome(m, field, Unconditional(entry))

RECURSIVE ExpectedMessages(_, _, _)
ExpectedMessages(m, field, entries) ==
  IF entries = << >> THEN << >>
  ELSE LET o == ExpectedOutcome(m, field, Head(entries))
       IN (IF o.status = "fulfilled" /\ Truthy(o.value) THEN <<o.value>> ELSE << >>)
          \o ExpectedMessages(m, field, Tail(entries))

\* The events of the log that belong to the same dispatch as event i.
SameDispatch(i) ==
  {j \in DOMAIN log : log[j].field = log[i].field /\ log[j].constraint = log[i].constraint}

C12_ConditionalSkip ==
  /\ \A i \in DOMAIN log :
       LET entry == EntryOf(log[i])
           answered == i < Len(log) \/ pc # "awaitIf"
       IN /\ (log[i].ev = "dispatch" /\ Conditional(entry)) =>
               /\ Len(log) > i
               /\ log[i + 1].ev = "if"
               /\ i + 1 \in SameDispatch(i)
          /\ log[i].ev = "if" =>
               /\ Conditional(entry)
               /\ log[i].key = Get(normalizeOptions(entry[2]), Str("if"))
               /\ log[i].params = Arr(<<Get(model, log[i].field), model, log[i].field>>)
               /\ \A j \in SameDispatch(i) : log[j].ev = "if" => j = i
               /\ (answered /\ IfAnswer(model, log[i].field, entry) = Fulfilled(Bool(FALSE))) =>
                    \A j \in SameDispatch(i) : log[j].ev \in {"dispatch", "if", "ifSettled"}
               /\ (answered /\ IfAnswer(model, log[i].field, entry) = Fulfilled(Bool(TRUE))) =>
                    \/ /\ Len(log) > i + 1
                       /\ i + 2 \in SameDispatch(i)
                       /\ log[i + 2].ev = "validator"
                    \/ outcome = dispatchOutcome(model, log[i].field, Unconditional(entry))
  /\ (DirectFieldCall("never") /\ outcome.status = "fulfilled") =>
       outcome.value = Arr(ExpectedMessages(model, call.field, call.constraints.v))

\* A call has returned the message of a custom constraint whose `if` said
\* true and nothing for an absence constraint, failing by itself, whose
\* `if` said false.
C12_Witness ==
  /\ DirectFieldCall("never")
  /\ Keys(call.constraints.v) = <<Str("absence"), Str("custom")>>
  /\ Fails(model, call.field, Unconditional(call.constraints.v[1]))
  /\ outcome = Fulfilled(Arr(<<Str("custom failed")>>))
  /\ \E i \in DOMAIN log : log[i].ev = "if" /\ log[i].constraint = "absence"
  /\ \E i \in DOMAIN log : log[i].ev = "custom"

(***************************************************************************)
(* One constraint dispatched alone: a call of validateField with a single  *)
(* constraint, over option bags that satisfy or break the checks the       *)
(* dispatcher makes before it calls a validator.                           *)
(***************************************************************************)
DispatchCatalogue ==
  { P("type", Bool(TRUE)),
    P("type", Obj(<< P("type", Str("string")) >>)),
    P("type", Obj(<< P("type", Str("text")) >>)),
    P("type", Obj(<< P("type", Num(5)) >>)),
    P("type", Obj(<< P("if", Fn("ifFalse")) >>)),
    P("format", Bool(TRUE)),
    P("format", Obj(<< P("pattern", Str("^abc")) >>)),
    P("format", Obj(<< P("pattern", RegExpOf("^abc")) >>)),
    P("format", Obj(<< P("with", RegExpOf("^abc")) >>)),
    P("format", Obj(<< P("pattern", RegExpOf("^abc")), P("with", RegExpOf("^abc")) >>)),
    P("confirmation", Bool(TRUE)),
    P("confirmation", Obj(<< P("on", Obj(<< >>)) >>)),
    P("confirmation", Obj(<< P("on", Str("b")) >>)),
    P("confirmation", Obj(<< P("on", Num(1)) >>)),
    P("confirmation", Obj(<< <<Str("on"), Sym("s")>> >>)),
    P("inclusion", Bool(TRUE)),
    P("inclusion", Obj(<< P("in", Str("abc")) >>)),
    P("inclusion", Obj(<< P("in", Arr(<<Str("abc"), Num(5)>>)) >>)),
    P("exclusion", Obj(<< P("message", Str("Not allowed")) >>)),
    P("exclusion", Obj(<< P("from", Obj(<< P("length", Num(0)) >>)) >>)),
    P("exclusion", Obj(<< P("from", Arr(<<Str("abc"), Num(5)>>)) >>)),
    P("custom", Bool(TRUE)),
    P("custom", Obj(<< P("with", Str("customFail")) >>)),
    P("custom", Obj(<< P("if", Fn("ifTrue")), P("with", Str("customFail")) >>)),
    P("custom", Obj(<< P("if", Fn("ifTrue")), P("with", Fn("customFail")) >>)),
    P("custom", Obj(<< P("with", Fn("customPass")) >>)),
    P("instance", Bool(TRUE)),
    P("instance", Obj(<< P("Constructor", Num(5)) >>)),
    P("instance", Obj(<< P("Constructor", Obj(<< >>)) >>)),
    P("instance", Obj(<< P("Constructor", Fn("Array")) >>)),
    P("instance", Obj(<< P("if", Fn("ifFalse")), P("Constructor", Num(5)) >>)) }

DispatchValues ==
  {Undefined, Null, Num(5), Str("abc"), Str("abcdef"), Str("xyz"), Arr(<<Str("abc")>>)}

\* The model: field `a` holds the value, fields `b`, `1` and a symbol field
\* are there to be confirmed against.
DispatchModel(value) ==
  Obj((IF value = Undefined THEN << >> ELSE << P("a", value) >>)
      \o << P("b", Str("abc")), P("1", Str("xyz")), <<Sym("s"), Num(5)>> >>)

DispatchCalls ==
  { [fn |-> "validateField", field |-> Str("a"), constraints |-> Obj(<<e>>), haltBy |-> h] :
      <<e, h>> \in DispatchCatalogue \X {Undefined, Str("first-error")} }

InitDispatch ==
  /\ call \in DispatchCalls
  /\ model \in {DispatchModel(v) : v \in DispatchValues}
  /\ pc = "called"
  /\ vEntries = << >>
  /\ vi = 0
  /\ vResult = << >>
  /\ fField = Undefined
  /\ fEntries = << >>
  /\ fi = 0
  /\ fHaltBy = Undefined
  /\ fResult = << >>
  /\ cValue = Undefined
  /\ outcome = Pending
  /\ log = << >>

NextDispatch ==
  \/ callValidateField
  \/ validateFieldNext
  \/ ifSettles
  \/ customSettles

SpecDispatch == InitDispatch /\ [][NextDispatch]_vars

\* The constraint of the call, its name, its options and the field's value.
TheEntry == call.constraints.v[1]
TheName == TheEntry[1].v
TheOptions == normalizeOptions(TheEntry[2])
TheValue == Get(model, call.field)

Given(options, name) == HasOwn(options.v, Str(name))

\* The call is over and the dispatcher came to its switch: the constraint
\* had no `if`, or its `if` resolved to true.
SwitchReached ==
  /\ call.fn = "validateField"
  /\ pc = "settled"
  /\ Conditional(TheEntry) => IfAnswer(model, call.field, TheEntry) = Fulfilled(Bool(TRUE))

\* No validator, custom callback or handler was called.
NothingInvoked == \A i \in DOMAIN log : log[i].ev \in {"dispatch", "if", "ifSettled"}

RaisedConfigurationError ==
  outcome.status = "rejected" /\ outcome.value \in ConfigurationErrors

\* The options break the required-option condition of the constraint;
\* onTypes are the types a confirmation's `on` may have.
RequiredOptionBroken(onTypes) ==
  CASE TheName = "type" ->
         ~Given(TheOptions, "type") \/ Get(TheOptions, Str("type")) \notin {Str(t) : t \in TYPE_VALUES}
    [] TheName = "format" ->
         ~Given(TheOptions, "pattern") \/ Get(TheOptions, Str("pattern")).k # "regexp"
    [] TheName = "confirmation" ->
         ~Given(TheOptions, "on") \/ TypeOf(Get(TheOptions, Str("on"))) \notin onTypes
    [] TheName = "inclusion" ->
         ~Given(TheOptions, "in") \/ Get(TheOptions, Str("in")).k # "array"
    [] TheName = "exclusion" ->
         ~Given(TheOptions, "from") \/ Get(TheOptions, Str("from")).k # "array"
    [] TheName = "custom" ->
         ~Given(TheOptions, "with") \/ TypeOf(Get(TheOptions, Str("with"))) # "function"
    [] OTHER -> FALSE

RequiredOptionsChecked(onTypes) ==
  (SwitchReached /\ RequiredOptionBroken(onTypes)) =>
    /\ RaisedConfigurationError
    /\ NothingInvoked
    /\ Len(log) = IF Conditional(TheEntry) THEN 3 ELSE 1

(***************************************************************************)
(* C13 (as claimed): type, format, confirmation, inclusion, exclusion and  *)
(* custom with their required option missing or of the wrong kind raise a  *)
(* configuration error and their validator is never called; the `on` of a  *)
(* confirmation must be a field identifier, a string or a symbol.          *)
(***************************************************************************)
C13_AsClaimed == RequiredOptionsChecked({"string", "symbol"})

(***************************************************************************)
(* C13 (amended): when the dispatcher comes to its switch (the constraint  *)
(* has no `if`, or its `if` resolved to true), type, format, confirmation, *)
(* inclusion, exclusion and custom with their required option missing or   *)
(* of the wrong kind raise a configuration error at once and no validator, *)
(* callback or handler is called; the `on` of a confirmation may be a      *)
(* string, a number or a symbol.                                           *)
(***************************************************************************)
C13_RequiredOptions == RequiredOptionsChecked({"string", "number", "symbol"})

\* A custom constraint whose `with` is a string was refused after its `if`
\* had said true.
C13_Witness ==
  /\ SwitchReached
  /\ TheName = "custom"
  /\ Conditional(TheEntry)
  /\ TypeOf(Get(TheOptions, Str("with"))) = "string"
  /\ outcome = Rejected(ErrorOf("RequiredOptionMissingError"))
  /\ Len(log) = 3

(***************************************************************************)
(* C14 (as claimed): the instance constraint with options.Constructor      *)
(* missing or not callable raises a configuration error and                *)
(* validateInstance is never called.                                       *)
(***************************************************************************)
C14_AsClaimed ==
  (/\ SwitchReached
   /\ TheName = "instance"
   /\ \/ ~Given(TheOptions, "Constructor")
      \/ TypeOf(Get(TheOptions, Str("Constructor"))) # "function") =>
    /\ RaisedConfigurationError
    /\ NothingInvoked

(***************************************************************************)
(* C15 (as claimed): the format constraint with options {pattern: regex}   *)
(* and a string value passes iff the value matches options.pattern, and    *)
(* returns one failure message for a string that does not match it.        *)
(***************************************************************************)
C15_AsClaimed ==
  (/\ SwitchReached
   /\ TheName = "format"
   /\ Given(TheOptions, "pattern") /\ Get(TheOptions, Str("pattern")).k = "regexp"
   /\ ~Given(TheOptions, "with")
   /\ TypeOf(TheValue) = "string") =>
    /\ outcome.status = "fulfilled"
    /\ IF StringMatch(TheValue.v, Get(TheOptions, Str("pattern")))
       THEN outcome.value = Arr(<< >>)
       ELSE outcome.value = Arr(<<Str("Must have a valid format")>>)

(***************************************************************************)
(* The validators called directly, as the exported functions they are:     *)
(* one call of one validator.                                              *)
(***************************************************************************)
applyValidator(name, m, field, value, options) ==
  CASE name = "presence" -> validatePresence(m, field, value, options)
    [] name = "absence" -> validateAbsence(m, field, value, options)
    [] name = "length" -> validateLength(m, field, value, options)
    [] name = "email" -> validateEmail(m, field, value, options)
    [] name = "format" -> validateFormat(m, field, value, options)
    [] name = "inclusion" -> validateInclusion(m, field, value, options)
    [] name = "exclusion" -> validateExclusion(m, field, value, options)
    [] name = "uuid" -> validateUUID(m, field, value, options)
    [] name = "type" -> validateType(m, field, value, options)
    [] name = "instance" -> validateInstance(m, field, value, options)
    [] name = "confirmation" -> validateConfirmation(m, field, value, options)

AnyValues ==
  { Undefined, Null, Num(0), Num(5), NaN, Bool(FALSE), Bool(TRUE), Str(""), Str("5"),
    Str("abc"), Arr(<< >>), Obj(<< >>), Fn("customPass"), Sym("s") }

StringValues ==
  { Str(""), Str("abc"), Str("xyz"), Str("a@b.co"), Str("f47ac10b-58cc-4372-a567-0e02b2c3d479") }

LengthValues ==
  { Str(""), Str("a"), Str("ab"), Str("abc"), Str("abcd"),
    Arr(<< >>), Arr(<<Num(1), Num(2)>>), Arr(<<Num(1), Num(2), Num(3), Num(4)>>),
    Obj(<< P("length", Num(3)) >>), Obj(<< P("length", Str("3")) >>), Obj(<< >>),
    Num(5), Null, Undefined, Bool(TRUE), Fn("customPass") }

WithHandler == << P("i18n", Obj(<< P("handler", HandlerOf("mockEngine")) >>)) >>

LengthOptions ==
  { lo \o hi \o h :
      <<lo, hi, h>> \in { << >>, << P("minimum", Num(2)) >>, << P("minimum", Num(0)) >> }
                        \X { << >>, << P("maximum", Num(3)) >>, << P("maximum", Num(2)) >> }
                        \X { << >>, WithHandler } }

MemberLists ==
  { << >>, <<Str("abc"), Num(5)>>, <<NaN, Null>>, <<Num(0), Bool(FALSE), Str("")>> }

\* An option bag that holds the options every validator needs.
KeyedOptions ==
  << P("with", RegExpOf("^abc")), P("type", Str("string")), P("Constructor", Fn("Array")),
     P("on", Str("b")), P("in", Arr(<<Str("abc")>>)), P("from", Arr(<<Str("abc")>>)) >>

ValidatorCall(name, value, options) ==
  [fn |-> "validator", constraint |-> name, field |-> Str("a"), value |-> value,
   options |-> Obj(options)]

ValidatorCalls ==
  { ValidatorCall(n, v, o) :
      <<n, v, o>> \in {"presence", "absence"} \X AnyValues \X {<< >>, WithHandler} }
  \cup { ValidatorCall(n, v, o) :
      <<n, v, o>> \in {"email", "uuid", "format"} \X (AnyValues \cup StringValues)
                        \X {<< >>, << P("with", RegExpOf("^abc")) >>} }
  \cup { ValidatorCall("length", v, o) : <<v, o>> \in LengthValues \X LengthOptions }
  \cup { ValidatorCall("inclusion", v, << P("in", Arr(l)) >>) : <<v, l>> \in AnyValues \X MemberLists }
  \cup { ValidatorCall("exclusion", v, << P("from", Arr(l)) >>) : <<v, l>> \in AnyValues \X MemberLists }
  \cup { ValidatorCall(n, v, o \o WithHandler) :
           <<n, v, o>> \in {"email", "uuid", "format", "type", "instance", "confirmation",
                            "inclusion", "exclusion"}
                             \X {Str("abc"), Str("xyz"), Arr(<< >>)} \X {KeyedOptions} }

InitValidator ==
  /\ call \in ValidatorCalls
  /\ model = DispatchModel(call.value)
  /\ pc = "called"
  /\ vEntries = << >>
  /\ vi = 0
  /\ vResult = << >>
  /\ fField = Undefined
  /\ fEntries = << >>
  /\ fi = 0
  /\ fHaltBy = Undefined
  /\ fResult = << >>
  /\ cValue = Undefined
  /\ outcome = Pending
  /\ log = << >>

\* the validator is called and returns or throws
callValidator ==
  /\ pc = "called"
  /\ call.fn = "validator"
  /\ LET c == applyValidator(call.constraint, model, call.field, call.value, call.options)
     IN /\ outcome' = IF c.type = "throw" THEN Rejected(c.value) ELSE Fulfilled(c.value)
        /\ log' = Events(call.field, call.constraint, c.calls)
  /\ pc' = "settled"
  /\ UNCHANGED <<model, call, vEntries, vi, vResult, fField, fEntries, fi, fHaltBy,
                 fResult, cValue>>

NextValidator == callValidator

SpecValidator == InitValidator /\ [][NextValidator]_vars

\* The call of the validator `name` is over.
Validated(name) == call.fn = "validator" /\ call.constraint = name /\ pc = "settled"

\* What a direct call came to.
Passed == outcome = Fulfilled(Undefined)
Failed == outcome.status = "fulfilled" /\ outcome.value.k = "string"
Threw(class) == outcome = Rejected(ErrorOf(class))

(***************************************************************************)
(* C16: format, email and uuid called on a value that is not a string      *)
(* throw the invalid-value configuration error; they neither pass nor      *)
(* return a message, and resolve no message on the way.                    *)
(***************************************************************************)
C16_NonStringThrows ==
  \A name \in {"format", "email", "uuid"} :
    (Validated(name) /\ TypeOf(call.value) # "string") =>
      /\ Threw("InvalidValueForConstraintError")
      /\ log = << >>

\* uuid was called on a number and threw.
C16_Witness ==
  /\ Validated("uuid")
  /\ call.value = Num(5)
  /\ Threw("InvalidValueForConstraintError")

(***************************************************************************)
(* C17: the bounds of length are inclusive.  With a minimum, a maximum or  *)
(* both, a value with a length passes iff its length is not below the      *)
(* minimum and not above the maximum (so a length equal to a bound passes, *)
(* minimum - 1 and maximum + 1 fail), and a failure is resolved under the  *)
(* key length.minimum when only the minimum is set, length.maximum when    *)
(* only the maximum is set, length.interval when both are.                 *)
(***************************************************************************)
\* The length of a string, of an array, or of an object with a numeric
\* `length`; -1 for a value without one.
LengthMeasure(value) ==
  CASE value.k \in {"string", "array"} -> Len(value.v)
    [] value.k = "object" /\ HasOwn(value.v, Str("length"))
         /\ GetOwn(value.v, Str("length")).k = "number" -> GetOwn(value.v, Str("length")).v
    [] OTHER -> -1

HasMinimum == Given(call.options, "minimum")
HasMaximum == Given(call.options, "maximum")

LengthVariant ==
  IF HasMinimum /\ HasMaximum THEN "length.interval"
  ELSE IF HasMinimum THEN "length.minimum" ELSE "length.maximum"

C17_InclusiveBounds ==
  LET length == LengthMeasure(call.value)
      minimum == Get(call.options, Str("minimum")).v
      maximum == Get(call.options, Str("maximum")).v
      within == (HasMinimum => length >= minimum) /\ (HasMaximum => length <= maximum)
  IN (Validated("length") /\ length >= 0 /\ (HasMinimum \/ HasMaximum)) =>
       IF within THEN Passed /\ log = << >>
       ELSE /\ Failed
            /\ Given(call.options, "i18n") =>
                 log[1].ev = "exists" /\ log[1].key = Str("validation." \o LengthVariant)

\* A value of length maximum + 1 failed an interval whose minimum it meets,
\* and the handler was asked for the interval key.
C17_Witness ==
  /\ Validated("length")
  /\ HasMinimum /\ HasMaximum
  /\ LengthMeasure(call.value) = Get(call.options, Str("maximum")).v + 1
  /\ LengthMeasure(call.value) >= Get(call.options, Str("minimum")).v
  /\ Failed
  /\ Len(log) = 1 /\ log[1].key = Str("validation.length.interval")

(***************************************************************************)
(* C18: length with neither minimum nor maximum passes for every value     *)
(* with a length (a string, or an object, arrays included, with a numeric  *)
(* `length`) and throws the invalid-value configuration error for every    *)
(* other value (a number, null, undefined, a boolean, an object without a  *)
(* numeric `length`, a function).                                          *)
(***************************************************************************)
C18_UnboundedLength ==
  (Validated("length") /\ ~HasMinimum /\ ~HasMaximum) =>
    /\ log = << >>
    /\ IF LengthMeasure(call.value) >= 0
       THEN Passed
       ELSE Threw("InvalidValueForConstraintError")

\* length without bounds threw on a number.
C18_Witness ==
  /\ Validated("length")
  /\ ~HasMinimum /\ ~HasMaximum
  /\ call.value = Num(5)
  /\ Threw("InvalidValueForConstraintError")

(***************************************************************************)
(* C19: inclusion and exclusion on the same list are complements: for a    *)
(* value and a list, inclusion passes iff exclusion fails and fails iff    *)
(* exclusion passes; membership does not coerce ('5' is not 5).            *)
(***************************************************************************)
\* The other of the two validators, called on the same value and list.
Complement ==
  IF call.constraint = "inclusion"
  THEN validateExclusion(model, call.field, call.value,
                         Obj(<< P("from", Get(call.options, Str("in"))) >>))
  ELSE validateInclusion(model, call.field, call.value,
                         Obj(<< P("in", Get(call.options, Str("from"))) >>))

\* The list the call was given.
Listed ==
  IF call.constraint = "inclusion" THEN Get(call.options, Str("in")).v
  ELSE Get(call.options, Str("from")).v

C19_Complements ==
  \A name \in {"inclusion", "exclusion"} :
    Validated(name) =>
      LET member == \E i \in DOMAIN Listed : Listed[i] = call.value
      IN /\ Passed \/ Failed
         /\ Passed <=> (Complement.type = "return" /\ Complement.value.k = "string")
         /\ Failed <=> Complement = Pass
         /\ Passed <=> (member <=> name = "inclusion")

\* exclusion passed for the string '5' on a list that holds the number 5.
C19_Witness ==
  /\ Validated("exclusion")
  /\ call.value = Str("5")
  /\ \E i \in DOMAIN Listed : Listed[i] = Num(5)
  /\ Passed
  /\ Complement.value = Str("Must be an allowed value")

(***************************************************************************)
(* C20: presence and absence are complements: for null and undefined       *)
(* presence fails and absence passes; for every other value (0, false, '', *)
(* [], {} and NaN included) presence passes and absence fails.             *)
(***************************************************************************)
C20_PresenceAbsence ==
  LET none == call.value \in {Null, Undefined}
  IN /\ Validated("presence") => IF none THEN Failed ELSE Passed
     /\ Validated("absence") => IF none THEN Passed ELSE Failed

\* presence passed for the empty string.
C20_Witness ==
  /\ Validated("presence")
  /\ call.value = Str("")
  /\ Passed

(***************************************************************************)
(* C21 (as claimed): a failing validator resolves its message under its    *)
(* own constraint's name (name.variant for length): with a handler, the    *)
(* key the handler is asked for is 'validation.' + that name, so no two    *)
(* kinds of constraint share a key.                                        *)
(***************************************************************************)
BuiltIn ==
  {"presence", "absence", "type", "instance", "length", "email", "format", "confirmation",
   "inclusion", "exclusion", "uuid"}

C21_AsClaimed ==
  \A name \in BuiltIn :
    (Validated(name) /\ Failed /\ Given(call.options, "i18n")) =>
      /\ Len(log) >= 1
      /\ log[1].ev = "exists"
      /\ log[1].key = Str("validation." \o (IF name = "length" THEN LengthVariant ELSE name))

(***************************************************************************)
(* Calls whose constraints hold caller-supplied functions that reject,     *)
(* that write to the model, that answer the empty string; over field keys  *)
(* of every kind: a plain string, an array index, a symbol.                *)
(***************************************************************************)
AnyKeys == {Str("a"), Str("1"), Sym("s")}

\* The calls of validate and validateField over a catalogue of constraint
\* entries: at most MaxFields fields under the same MaxConstraints constraints.
CallsOver(catalogue) ==
  LET constraintSets == {Obj(l) : l \in PropsOf(catalogue, MaxConstraints)}
      declared == UNION { PropsOf(AnyKeys \X {c}, MaxFields) : c \in constraintSets }
      haltBys == {Undefined, Str("first-error"), Str("first-field-error")}
  IN { [fn |-> "validate", field |-> Undefined, constraints |-> Obj(mc), haltBy |-> h] :
         <<mc, h>> \in declared \X haltBys }
     \cup { [fn |-> "validateField", field |-> f, constraints |-> c, haltBy |-> h] :
         <<f, c, h>> \in AnyKeys \X constraintSets \X {Undefined, Str("first-error")} }

InitOver(calls) ==
  /\ call \in calls
  /\ model \in ModelsOf(FieldsOf(call))
  /\ pc = "called"
  /\ vEntries = << >>
  /\ vi = 0
  /\ vResult = << >>
  /\ fField = Undefined
  /\ fEntries = << >>
  /\ fi = 0
  /\ fHaltBy = Undefined
  /\ fResult = << >>
  /\ cValue = Undefined
  /\ outcome = Pending
  /\ log = << >>

CallbackCatalogue ==
  { P("presence", Bool(TRUE)),
    P("presence", Obj(<< P("if", Fn("ifReject")) >>)),
    P("custom", Obj(<< P("with", Fn("customReject")) >>)),
    P("custom", Obj(<< P("with", Fn("customFail")), P("message", Str("Overridden")),
                       P("i18n", Obj(<< P("handler", HandlerOf("mockEngine")),
                                        P("key", Str("anEntry")) >>)) >>)),
    P("custom", Obj(<< P("with", Fn("customSets")) >>)),
    P("confirmation", Obj(<< P("if", Fn("ifSets")), P("on", Str("b")) >>)) }

InitCallbacks == InitOver(CallsOver(CallbackCatalogue))

SpecCallbacks == InitCallbacks /\ [][Next]_vars

SkipCatalogue ==
  { P("presence", Bool(TRUE)),
    P("presence", Obj(<< P("i18n", Obj(<< P("handler", HandlerOf("mockEngine")),
                                          P("key", Str("emptyEntry")) >>)) >>)),
    P("custom", Obj(<< P("with", Fn("customEmpty")) >>)),
    P("bogus", Obj(<< P("if", Fn("ifFalse")) >>)),
    P("type", Obj(<< P("if", Fn("ifFalse")), P("type", Str("text")) >>)),
    P("inclusion", Obj(<< P("if", Fn("ifFalse")) >>)) }

InitSkips == InitOver(CallsOver(SkipCatalogue))

SpecSkips == InitSkips /\ [][Next]_vars

(***************************************************************************)
(* C22: a rejection or exception raised by an `if` predicate or by a       *)
(* custom validator propagates out of validateField/validate and aborts    *)
(* the whole call: the call rejects with that very error, the error is not *)
(* turned into a message, and nothing is dispatched or called after it.    *)
(***************************************************************************)
RejectionAt(i) ==
  /\ log[i].ev \in {"ifSettled", "customSettled"}
  /\ log[i].params.status = "rejected"

C22_RejectionAborts ==
  \A i \in DOMAIN log :
    RejectionAt(i) =>
      /\ i = Len(log)
      /\ pc = "settled"
      /\ outcome = Rejected(log[i].params.value)

\* validate: the predicate of a constraint rejected while constraints of the
\* field and fields of the model were still to come.
C22_Witness ==
  /\ call.fn = "validate"
  /\ log # << >>
  /\ RejectionAt(Len(log))
  /\ log[Len(log)].ev = "ifSettled"
  /\ fi < Len(fEntries)
  /\ vi < Len(vEntries)
  /\ outcome.status = "rejected"

(***************************************************************************)
(* C23: evaluation is strictly sequential: during one call of validate or  *)
(* validateField at most one caller-supplied function is in flight, and no *)
(* constraint is dispatched, no `if` predicate and no custom validator     *)
(* called, before every function called earlier in the call has settled.   *)
(***************************************************************************)
CallsBefore(i) == Cardinality({j \in 1..(i - 1) : log[j].ev \in {"if", "custom"}})
SettlementsBefore(i) ==
  Cardinality({j \in 1..(i - 1) : log[j].ev \in {"ifSettled", "customSettled"}})
InFlight == CallsBefore(Len(log) + 1) - SettlementsBefore(Len(log) + 1)

C23_Sequential ==
  /\ InFlight \in {0, 1}
  /\ InFlight = 1 <=> pc \in {"awaitIf", "awaitCustom"}
  /\ \A i \in DOMAIN log :
       log[i].ev \in {"dispatch", "if", "custom"} =>
         CallsBefore(i) = SettlementsBefore(i)

\* validate called a custom validator for one field and, later, an `if`
\* predicate for another.
C23_Witness ==
  /\ call.fn = "validate"
  /\ pc = "settled"
  /\ \E i, j \in DOMAIN log :
       /\ i < j
       /\ log[i].ev = "custom"
       /\ log[j].ev = "if"
       /\ log[i].field # log[j].field

(***************************************************************************)
(* C24: execution order.  As claimed: validate visits the fields of        *)
(* modelConstraints, and validateField the constraints of a field, in the  *)
(* order the caller declared them, and every declared field is visited     *)
(* unless a halt policy stops earlier, for any string or symbol key.       *)
(* As the code has it: the constraints of a field are visited in declared  *)
(* order; validate visits the string-keyed fields only, those whose key is *)
(* an array index first, in ascending numeric order, then the others in    *)
(* declared order; a field declared under a symbol key is never visited.   *)
(***************************************************************************)
Dispatches == {i \in DOMAIN log : log[i].ev = "dispatch"}

\* The position at which the caller declared a key in a property sequence.
DeclaredAt(props, key) == CHOOSE i \in DOMAIN props : props[i][1] = key

\* The constraints the call declares for a field.
DeclaredFor(field) ==
  IF call.fn = "validateField" THEN call.constraints.v
  ELSE Get(call.constraints, field).v

\* The call ran to its end: no error raised, no halt at model level.
RanToEnd ==
  /\ pc = "settled"
  /\ outcome.status = "fulfilled"
  /\ call.fn = "validate" =>
       ~(haltByOf(call) = Str("first-error") /\ outcome.value.v # << >>)

WasVisited(field) == \E i \in Dispatches : log[i].field = field

\* The declared fields that have a constraint to dispatch.
DeclaredFields ==
  {f \in FieldsOf(call) : DeclaredFor(f) # << >>}

ConstraintsInDeclaredOrder ==
  \A i, j \in Dispatches :
    (i < j /\ log[i].field = log[j].field) =>
      DeclaredAt(DeclaredFor(log[i].field), Str(log[i].constraint))
        < DeclaredAt(DeclaredFor(log[j].field), Str(log[j].constraint))

\* f is visited before g by a loop over Object.entries
EntriesBefore(f, g) ==
  CASE IsIndexKey(f) /\ IsIndexKey(g) -> IndexValue(f.v) < IndexValue(g.v)
    [] IsIndexKey(f) -> TRUE
    [] IsIndexKey(g) -> FALSE
    [] OTHER -> DeclaredAt(call.constraints.v, f) < DeclaredAt(call.constraints.v, g)

CustomOptionsOf(field) ==
  normalizeOptions(Get(Obj(DeclaredFor(field)), Str("custom")))

CustomCalls ==
  /\ \A i \in DOMAIN log :
       log[i].ev = "custom" =>
         /\ log[i].key = Get(CustomOptionsOf(log[i].field), Str("with"))
         /\ log[i - 1].ev = "validator"
         /\ log[i].params.v[2] = log[i].field
         /\ log[i].params.v[3] = log[i - 1].params
         /\ log[i].params.v[4] = CustomOptionsOf(log[i].field)
         /\ IF i = Len(log)
            THEN pc = "awaitCustom" /\ log[i].params.v[1] = model
            ELSE log[i + 1].ev = "customSettled" /\ log[i + 1].key = log[i].key
         /\ \A j \in DOMAIN log :
              (log[j].ev = "custom" /\ log[j].field = log[i].field) => j = i
  /\ \A i \in DOMAIN log :
       log[i].constraint = "custom" => log[i].ev \notin {"exists", "t"}

\* The step in which the promise of options.with settles: what it settled to
\* is what the loop of validateField receives.
CustomResult ==
  pc = "awaitCustom" =>
    LET settled == log'[Len(log')]
    IN /\ Len(log') = Len(log) + 1
       /\ settled.ev = "customSettled"
       /\ IF settled.params.status = "rejected"
          THEN outcome' = Rejected(settled.params.value)
          ELSE fResult' = IF Truthy(settled.params.value)
                          THEN Append(fResult, settled.params.value)
                          ELSE fResult

C25_CustomDelegates == []CustomCalls /\ [][CustomResult]_vars

\* validateField returned the message of a custom validator whose options
\* hold a message and an i18n key that the handler knows.
C25_Witness ==
  /\ call.fn = "validateField"
  /\ pc = "settled"
  /\ outcome = Fulfilled(Arr(<<Str("custom failed")>>))
  /\ Get(CustomOptionsOf(call.field), Str("message")) = Str("Overridden")
  /\ In(Str("i18n"), CustomOptionsOf(call.field))

(***************************************************************************)
(* C26: model-level 'first-error' and 'first-field-error' differ only in   *)
(* the outer loop: on the same model and constraints, with deterministic   *)
(* validators, the result of validate with 'first-error' is the result of  *)
(* validate with 'first-field-error' restricted to its first key in        *)
(* visiting order, with the same single message, and it is empty iff the   *)
(* latter is empty.  The result under 'first-field-error' is               *)
(* Obj(FirstMessagesFrom(1)), which the first conjunct ties to the call.   *)
(***************************************************************************)
\* validate with 'first-field-error' returns on this model and constraints:
\* no constraint up to the first failing one of each field rejects.
FirstFieldErrorReturns ==
  \A n \in DOMAIN Visited :
    LET entries == ObjectEntries(Visited[n][2])
        last == IF FirstFailingOf(n) = 0 THEN Len(entries) ELSE FirstFailingOf(n)
    IN \A j \in 1..last : ~Aborts(model, Visited[n][1], entries[j])

FirstKeyOnly(props) == IF props = << >> THEN << >> ELSE <<props[1]>>

C26_OuterLoopOnly ==
  /\ (ModelCall("first-field-error") /\ outcome.status = "fulfilled") =>
       outcome.value = Obj(FirstMessagesFrom(1))
  /\ (ModelCall("first-field-error") /\ pc = "settled") =>
       (outcome.status = "fulfilled" <=> FirstFieldErrorReturns)
  /\ (ModelCall("first-error") /\ outcome.status = "fulfilled" /\ FirstFieldErrorReturns) =>
       /\ outcome.value = Obj(FirstKeyOnly(FirstMessagesFrom(1)))
       /\ outcome.value.v = << >> <=> FirstMessagesFrom(1) = << >>
       /\ \A i \in DOMAIN outcome.value.v : Len(outcome.value.v[i][2].v) = 1

\* validate with 'first-error' returned one field with one message where
\* 'first-field-error' returns two fields, on fields that each fail twice.
C26_Witness ==
  /\ ModelCall("first-error")
  /\ outcome.status = "fulfilled"
  /\ FirstFieldErrorReturns
  /\ Len(FirstMessagesFrom(1)) = 2
  /\ Len(outcome.value.v) = 1
  /\ Len(FailureMessages(model, Visited[1][1], ObjectEntries(Visited[1][2]))) = 2

(***************************************************************************)
(* C27: the params passed to the handler's t are exactly the record        *)
(* {constraint, model, field, value} overlaid with every option other than *)
(* message and i18n (`if`, minimum, name, ... included); where an option   *)
(* is named constraint, model, field or value, the option's value replaces *)
(* the one the engine supplies.                                            *)
(***************************************************************************)
EngineParam(key) ==
  CASE key = Str("constraint") -> Str(call.constraint)
    [] key = Str("model") -> model
    [] key = Str("field") -> call.field
    [] key = Str("value") -> call.value

EngineKeys == {Str("constraint"), Str("model"), Str("field"), Str("value")}

C27_TranslateParams ==
  \A i \in DOMAIN log :
    (Resolved /\ log[i].ev = "t") =>
      LET params == log[i].params.v
          options == call.options.v
          passed == {options[j][1] : j \in DOMAIN options} \ {Str("message"), Str("i18n")}
      IN /\ log[i].params.k = "object"
         /\ {params[j][1] : j \in DOMAIN params} = EngineKeys \cup passed
         /\ Cardinality(EngineKeys \cup passed) = Len(params)
         /\ \A j \in DOMAIN params :
              params[j][2] = IF params[j][1] \in passed
                             THEN GetOwn(options, params[j][1])
                             ELSE EngineParam(params[j][1])

\* t was handed the option named value in place of the value validated.
C27_Witness ==
  /\ Resolved
  /\ call.value = Str("abc")
  /\ Get(call.options, Str("value")) = Str("shadow")
  /\ \E i \in DOMAIN log :
       /\ log[i].ev = "t"
       /\ Get(log[i].params, Str("value")) = Str("shadow")
       /\ Get(log[i].params, Str("field")) = call.field

(***************************************************************************)
(* C28: the conditional skip is decided before the constraint name is      *)
(* looked up and before any required-option check: a constraint whose `if` *)
(* predicate resolves to false never raises a configuration error, even    *)
(* when its name is unknown or its required options are missing or         *)
(* malformed, and validation proceeds to the next constraint.              *)
(***************************************************************************)
SkippedAt(i) ==
  /\ log[i].ev = "ifSettled"
  /\ log[i].params.status = "fulfilled"
  /\ ~Truthy(log[i].params.value)

C28_SkipBeforeLookup ==
  \A i \in DOMAIN log :
    SkippedAt(i) =>
      LET declared == DeclaredFor(log[i].field)
          p == DeclaredAt(declared, Str(log[i].constraint))
      IN /\ i = Len(log) => outcome.status # "rejected"
         /\ i < Len(log) => log[i + 1].ev = "dispatch"
         /\ (p < Len(declared) /\ (i < Len(log) \/ pc = "settled")) =>
              /\ i < Len(log)
              /\ log[i + 1].field = log[i].field
              /\ Str(log[i + 1].constraint) = declared[p + 1][1]
         /\ (p = Len(declared) /\ i < Len(log)) => log[i + 1].field # log[i].field

\* validateField skipped an inclusion constraint that has no list and
\* returned the message of the constraint declared after it.
C28_Witness ==
  /\ call.fn = "validateField"
  /\ pc = "settled"
  /\ Len(call.constraints.v) = 2
  /\ call.constraints.v[1][1] = Str("inclusion")
  /\ ~In(Str("in"), call.constraints.v[1][2])
  /\ \E i \in DOMAIN log : SkippedAt(i) /\ log[i].constraint = "inclusion"
  /\ outcome.status = "fulfilled"
  /\ Len(outcome.value.v) = 1

(***************************************************************************)
(* C29: validateField treats a constraint as failed only when its awaited  *)
(* result is truthy: a custom validator that resolves to the empty string, *)
(* or a message resolution that yields '' (the handler translating to ''), *)
(* appends nothing to the result, does not trigger the 'first-error' halt  *)
(* at field or model level, and the field can be absent from the result of *)
(* validate.                                                               *)
(***************************************************************************)
\* No empty message among those collected or returned.
NoEmptyMessage ==
  /\ \A i \in DOMAIN fResult : fResult[i] # Str("")
  /\ \A i \in DOMAIN vResult : \A j \in DOMAIN vResult[i][2].v : vResult[i][2].v[j] # Str("")

\* The last call recorded by the step is a translation to ''.
TranslatedToEmpty ==
  LET last == log'[Len(log')]
      i18n == Get(normalizeOptions(fEntries[fi][2]), Str("i18n"))
  IN /\ last.ev = "t"
     /\ HandlerT(Get(i18n, Str("handler")), last.key, last.params) = Str("")

\* The step in which a constraint resolves to '': the loop goes on to the
\* next constraint with the result as it was.
EmptyResultStep ==
  (\/ pc = "awaitCustom" /\ log'[Len(log')].params = Fulfilled(Str(""))
   \/ pc = "validateField" /\ Len(log') > Len(log) /\ TranslatedToEmpty)
  => /\ fResult' = fResult
     /\ fi' = fi + 1
     /\ pc' = "validateField"
     /\ UNCHANGED <<vResult, vi, outcome>>

C29_EmptyIsNoFailure == []NoEmptyMessage /\ [][EmptyResultStep]_vars

\* validate with 'first-error' went through two fields, each with a presence
\* failure translated to '' and a custom validator resolving to '', and
\* returned a result without any field.
C29_Witness ==
  /\ call.fn = "validate"
  /\ call.haltBy = Str("first-error")
  /\ pc = "settled"
  /\ outcome = Fulfilled(Obj(<< >>))
  /\ Cardinality({i \in DOMAIN log : log[i].ev = "t"}) = 2
  /\ Cardinality({i \in DOMAIN log : log[i].ev = "customSettled"
                                      /\ log[i].params = Fulfilled(Str(""))}) = 2

(***************************************************************************)
(* C30: the field value is read from the model once per constraint         *)
(* dispatch, not once per field or per call: after an `if` predicate or a  *)
(* custom validator of an earlier constraint changed model[field], or the  *)
(* field named by confirmation's `on`, the later constraints of the call   *)
(* are evaluated against the new value; the engine itself never writes to  *)
(* the model or to the options.                                            *)
(***************************************************************************)
NewEvents == (Len(log) + 1)..Len(log')

\* A dispatch reads model[field] as the model is at that step, and that is
\* the value its validator is handed.
ReadsAtDispatch ==
  \A i \in NewEvents :
    /\ log'[i].ev = "dispatch" => log'[i].params = Get(model, log'[i].field)
    /\ log'[i].ev = "validator" => log'[i].params = cValue'
    /\ log'[i].ev = "dispatch" => cValue' = log'[i].params

\* confirmation compares with model[on] as the model is once its `if` settled.
ConfirmationReadsLate ==
  (/\ pc = "awaitIf"
   /\ fEntries[fi][1] = Str("confirmation")
   /\ \E i \in NewEvents : log'[i].ev = "validator")
  => LET on == Get(normalizeOptions(fEntries[fi][2]), Str("on"))
     IN fResult' = fResult <=> StrictEquals(cValue, Get(model', on))

\* The model changes only in the step in which a callback that writes to it
\* settles; the arguments of the call never change.
EngineWritesNothing ==
  /\ call' = call
  /\ model' # model =>
       /\ pc \in {"awaitIf", "awaitCustom"}
       /\ log'[Len(log) + 1].ev \in {"ifSettled", "customSettled"}
       /\ log'[Len(log) + 1].key \in {Fn("ifSets"), Fn("customSets")}
  /\ pc \notin {"called", "validate"} => (fEntries' = fEntries /\ fField' = fField)

C30_ReadPerDispatch ==
  [][ReadsAtDispatch /\ ConfirmationReadsLate /\ EngineWritesNothing]_vars

\* One call dispatched two constraints of the same field on different
\* values: a custom validator wrote to the field in between.
C30_Witness ==
  /\ pc = "settled"
  /\ \E i, j \in Dispatches :
       /\ i < j
       /\ log[i].field = log[j].field
       /\ log[i].params = Undefined
       /\ log[j].params = Str("abc")
       /\ log[i].constraint = "custom"
       /\ log[j].constraint = "confirmation"
  /\ outcome.status = "fulfilled"
  /\ Get(model, Str("b")) = Str("abc")

====
